---- MODULE Spec2Model ----
(***************************************************************************)
(* rffl-boxscores: the lineup normalisation, aggregation and validation    *)
(* core of src/rffl_boxscores/cli.py (_norm_slot, _is_starter, _f, the     *)
(* per-team lineup build and the require_clean gate of _export, and        *)
(* _validate_rffl_lineup as driven by cmd_validate_lineup, and the         *)
(* reconciliation of cmd_validate).                                        *)
(*                                                                         *)
(* Representation.                                                         *)
(*  - A Python str is a TLA+ string; f-strings are concatenations (\o).    *)
(*  - Python None (and a pandas null read back from an empty CSV field) is *)
(*    the value None below, distinct from every str the model draws.       *)
(*  - A Python float is a record [nan, milli]: either NaN, or the number   *)
(*    milli/1000.  Every number the model draws has at most 3 decimals,    *)
(*    and a lineup has a few dozen rows at most, so the binary rounding    *)
(*    error of a float sum (about 1e-13) never reaches the half-cent that  *)
(*    round(x, 2) decides on: exact decimal arithmetic gives the same      *)
(*    2-decimal results as the floats do.                                  *)
(***************************************************************************)
EXTENDS Integers, Sequences, FiniteSets, TLC

VARIABLES
    raw_slot,        \* _norm_slot argument s   (str or None)
    raw_pos,         \* _norm_slot argument pos (str or None)
    norm,            \* value returned by _norm_slot(raw_slot, raw_pos)
    starter,         \* value returned by _is_starter(norm)
    league,          \* the box-score sides _export iterates over, each with its lineup
    fetches,         \* number of players appended to the lineup so far
    fill_missing_slots, \* option of the last export
    require_clean,   \* option of the last export
    export_tolerance, \* option of the last export
    built,           \* per team-week: the ordered rows and the two team totals
    df,              \* the in-memory table of Row records of the last export
    out_csv,         \* the CSV file: [written, table]
    error,           \* name of the exception the last command raised, "" if none
    validation,      \* per team-week group: the dict _validate_rffl_lineup returned
    report,          \* the lineup validation report file: [written, rows]
    recon,           \* what cmd_validate read and computed: file, tolerance, agg, bad_*
    recon_report,    \* the validation report file of cmd_validate: [written, rows]
    coercion,        \* a call of _f: [x, default, called, value]
    pc               \* position of the run

vars == << raw_slot, raw_pos, norm, starter, league, fetches, fill_missing_slots,
           require_clean, built, df, out_csv, error, validation, report, recon,
           recon_report, coercion, export_tolerance, pc >>

-----------------------------------------------------------------------------
(* Python values *)

None == "<None>"

\* Python `x or d` for x a str or None: None and "" are falsy.
Or(x, d) == IF x = None \/ x = "" THEN d ELSE x

\* str.upper() on the label vocabulary of the model: every string of the
\* vocabulary that holds a lower-case letter is listed; a string without
\* lower-case letters is returned unchanged.
upper(str) ==
    CASE str = "qb"       -> "QB"
      [] str = "rb"       -> "RB"
      [] str = "wr"       -> "WR"
      [] str = "te"       -> "TE"
      [] str = "k"        -> "K"
      [] str = "rb/wr/te" -> "RB/WR/TE"
      [] str = "Rb/Wr/Te" -> "RB/WR/TE"
      [] str = "flex"     -> "FLEX"
      [] str = "Flex"     -> "FLEX"
      [] str = "dst"      -> "DST"
      [] str = "d/st"     -> "D/ST"
      [] str = "Defense"  -> "DEFENSE"
      [] str = "be"       -> "BE"
      [] str = "Bench"    -> "BENCH"
      [] str = "ir"       -> "IR"
      [] str = "op"       -> "OP"
      [] str = "xyz"      -> "XYZ"
      [] OTHER            -> str

-----------------------------------------------------------------------------
(* Module-level constants of cli.py *)

STARTER_SLOTS == {"QB", "RB", "WR", "TE", "D/ST", "K", "FLEX", "RB/WR/TE"}

BENCH_SLOTS == {"Bench", "IR"}

\* The dict in insertion order, as .items() yields it.
RFFL_LINEUP_REQUIREMENTS ==
    << <<"QB", 1>>, <<"RB", 2>>, <<"WR", 2>>, <<"TE", 1>>,
       <<"FLEX", 1>>, <<"D/ST", 1>>, <<"K", 1>> >>

FLEX_ELIGIBLE_POSITIONS == {"RB", "WR", "TE"}

-----------------------------------------------------------------------------
(* _norm_slot and _is_starter *)

\* Variant of _norm_slot: the final fallback forgets the "Bench" default.
NormSlotNoDefault(s0, pos0) ==
    LET s == upper(Or(s0, ""))
        p == upper(Or(pos0, ""))
    IN  IF s \in {"RB/WR/TE", "FLEX"} THEN "FLEX"
        ELSE IF s \in {"DST", "D/ST", "DEFENSE"} THEN "D/ST"
        ELSE IF s \in {"BE", "BENCH"} THEN "Bench"
        ELSE IF s \in {"IR"} THEN "IR"
        ELSE IF s \in {"QB", "RB", "WR", "TE", "K"} THEN s
        ELSE IF p \in {"QB", "RB", "WR", "TE", "K"} THEN p
        ELSE IF p \in {"D/ST", "DST"} THEN "D/ST"
        ELSE Or(s, p)

\* Variant of _norm_slot: the position label is consulted before the plain slot labels.
NormSlotPosFirst(s0, pos0) ==
    LET s == upper(Or(s0, ""))
        p == upper(Or(pos0, ""))
    IN  IF s \in {"RB/WR/TE", "FLEX"} THEN "FLEX"
        ELSE IF s \in {"DST", "D/ST", "DEFENSE"} THEN "D/ST"
        ELSE IF s \in {"BE", "BENCH"} THEN "Bench"
        ELSE IF s \in {"IR"} THEN "IR"
        ELSE IF p \in {"QB", "RB", "WR", "TE", "K"} THEN p
        ELSE IF s \in {"QB", "RB", "WR", "TE", "K"} THEN s
        ELSE IF p \in {"D/ST", "DST"} THEN "D/ST"
        ELSE Or(Or(s, p), "Bench")

\* Variant of _norm_slot: the first rule knows FLEX only, not the RB/WR/TE alias.
NormSlotNoAlias(s0, pos0) ==
    LET s == upper(Or(s0, ""))
        p == upper(Or(pos0, ""))
    IN  IF s \in {"FLEX"} THEN "FLEX"
        ELSE IF s \in {"DST", "D/ST", "DEFENSE"} THEN "D/ST"
        ELSE IF s \in {"BE", "BENCH"} THEN "Bench"
        ELSE IF s \in {"IR"} THEN "IR"
        ELSE IF s \in {"QB", "RB", "WR", "TE", "K"} THEN s
        ELSE IF p \in {"QB", "RB", "WR", "TE", "K"} THEN p
        ELSE IF p \in {"D/ST", "DST"} THEN "D/ST"
        ELSE Or(Or(s, p), "Bench")

_norm_slot(s0, pos0) ==
    LET s == upper(Or(s0, ""))
        p == upper(Or(pos0, ""))
    IN  IF s \in {"RB/WR/TE", "FLEX"} THEN "FLEX"
        ELSE IF s \in {"DST", "D/ST", "DEFENSE"} THEN "D/ST"
        ELSE IF s \in {"BE", "BENCH"} THEN "Bench"
        ELSE IF s \in {"IR"} THEN "IR"
        ELSE IF s \in {"QB", "RB", "WR", "TE", "K"} THEN s
        ELSE IF p \in {"QB", "RB", "WR", "TE", "K"} THEN p
        ELSE IF p \in {"D/ST", "DST"} THEN "D/ST"
        ELSE Or(Or(s, p), "Bench")

\* Variant of _is_starter: whatever is not a bench slot is a starter.
IsStarterNotBench(slot) == slot \notin BENCH_SLOTS

_is_starter(slot) == slot \in STARTER_SLOTS

-----------------------------------------------------------------------------
(* Floats and _f *)

Num(m) == [nan |-> FALSE, milli |-> m]

NaN == [nan |-> TRUE, milli |-> 0]

\* IEEE ==: NaN equals nothing, itself included.
FEq(a, b) == ~a.nan /\ ~b.nan /\ a.milli = b.milli

FAdd(a, b) == IF a.nan \/ b.nan THEN NaN ELSE Num(a.milli + b.milli)

FSub(a, b) == IF a.nan \/ b.nan THEN NaN ELSE Num(a.milli - b.milli)

FAbs(a) == IF a.nan THEN NaN ELSE Num(IF a.milli < 0 THEN -a.milli ELSE a.milli)

\* IEEE >: false when either side is NaN.
FGt(a, b) == ~a.nan /\ ~b.nan /\ a.milli > b.milli

\* round(x, 2) on thousandths: to the nearest hundredth; a value exactly
\* halfway goes to the even hundredth, as Python's correctly-rounded round()
\* does.  A float is exactly halfway only when it is a multiple of 0.125, so
\* the numbers the model draws with a final 5 are of that kind (0.125, 0.375,
\* 3.375).
RoundMilli(m) ==
    LET r == m % 10
        lo == m - r
    IN  IF r < 5 THEN lo
        ELSE IF r > 5 THEN lo + 10
        ELSE IF (lo \div 10) % 2 = 0 THEN lo ELSE lo + 10

round2(x) == IF x.nan THEN NaN ELSE Num(RoundMilli(x.milli))

\* Python sum(): a left fold from 0.
RECURSIVE FSumFrom(_, _, _)
FSumFrom(xs, i, acc) ==
    IF i > Len(xs) THEN acc ELSE FSumFrom(xs, i + 1, FAdd(acc, xs[i]))

FSum(xs) == FSumFrom(xs, 1, Num(0))

\* The objects a point attribute can hold.
PyNone == [kind |-> "None"]

PyFloat(x) == [kind |-> "float", f |-> x]

PyStr(str) == [kind |-> "str", s |-> str]

PyInt(n) == [kind |-> "int", n |-> n]

\* float(str) on the vocabulary of the model: TRUE when it raises ValueError.
\* float() parses "nan" in any letter case, and strips blanks.
FloatRaises(x) == x.kind = "str" /\ x.s \notin {"3.2", "-0.5", " 7 ", "nan", "NaN"}

float(x) ==
    IF x.kind = "float" THEN x.f
    ELSE IF x.kind = "int" THEN Num(x.n * 1000)
    ELSE IF x.s = "3.2" THEN Num(3200)
    ELSE IF x.s = "-0.5" THEN Num(-500)
    ELSE IF x.s = " 7 " THEN Num(7000)
    ELSE NaN

_f(x, default) ==
    IF x.kind = "None" \/ (x.kind = "float" /\ x.f.nan) THEN default
    ELSE IF FloatRaises(x) THEN default
    ELSE float(x)

-----------------------------------------------------------------------------
(* list.sort(key=...): a stable sort.  Less(a, b) is key(a) < key(b).  The  *)
(* element at output position k is the one that k-1 elements precede:      *)
(* those with a smaller key, and those with an equal key that came first.  *)

\* A sequence given as a function on 1..n, written out as a tuple.
List(f) == f \o <<>>

StableSort(xs, Less(_, _)) ==
    LET n == Len(xs)
        before(i) == {j \in 1..n : Less(xs[j], xs[i])
                                    \/ (~Less(xs[i], xs[j]) /\ j < i)}
        rank == List([i \in 1..n |-> Cardinality(before(i))])
    IN  List([k \in 1..n |-> xs[CHOOSE i \in 1..n : rank[i] = k - 1]])

RECURSIVE Flatten(_)
Flatten(xss) == IF xss = <<>> THEN <<>> ELSE Head(xss) \o Flatten(Tail(xss))

\* n copies of x.
Repeat(x, n) == List([i \in 1..n |-> x])

CountIf(xs, P(_)) == Cardinality({i \in 1..Len(xs) : P(xs[i])})

-----------------------------------------------------------------------------
(* _export: the build of one team's lineup (the body of the `for side` loop) *)

\* _orig_idx of a placeholder row.
PLACEHOLDER_ORIG_IDX == 1000

desired_order == <<"QB", "RB", "RB", "WR", "WR", "TE", "FLEX", "D/ST", "K">>

\* slot_rank.get(slot, 99)
slot_rank(slot) ==
    CASE slot = "QB"   -> 0
      [] slot = "RB"   -> 1
      [] slot = "WR"   -> 2
      [] slot = "TE"   -> 3
      [] slot = "FLEX" -> 4
      [] slot = "D/ST" -> 5
      [] slot = "K"    -> 6
      [] OTHER         -> 99

\* Variant of StampedRow: no row is flagged.
StampedRowNoFlag(bp, _idx) ==
    LET slot == _norm_slot(bp.slot_position, bp.position)
    IN  [ slot            |-> slot,
          slot_type       |-> IF _is_starter(slot) THEN "starters" ELSE "bench",
          player_name     |-> bp.name,
          nfl_team        |-> bp.proTeam,
          position        |-> bp.position,
          is_placeholder  |-> "No",
          issue_flag      |-> "",
          rs_projected_pf |-> round2(_f(bp.projected_points, Num(0))),
          rs_actual_pf    |-> round2(_f(bp.points, Num(0))),
          _orig_idx       |-> _idx ]

\* The row dict built for lineup entry bp at index _idx.
StampedRow(bp, _idx) ==
    LET slot == _norm_slot(bp.slot_position, bp.position)
        proj == round2(_f(bp.projected_points, Num(0)))
        act  == round2(_f(bp.points, Num(0)))
        pos  == upper(Or(bp.position, ""))
    IN  [ slot            |-> slot,
          slot_type       |-> IF _is_starter(slot) THEN "starters" ELSE "bench",
          player_name     |-> bp.name,
          nfl_team        |-> bp.proTeam,
          position        |-> bp.position,
          is_placeholder  |-> "No",
          issue_flag      |-> IF slot = "FLEX" /\ pos \notin FLEX_ELIGIBLE_POSITIONS
                              THEN "INVALID_FLEX_POSITION:" \o Or(pos, "UNKNOWN")
                              ELSE "",
          rs_projected_pf |-> proj,
          rs_actual_pf    |-> act,
          _orig_idx       |-> _idx ]

\* Variant of Placeholder: the placeholder sorts before the real entries.
PlaceholderSortsFirst(req_slot) ==
    [ slot            |-> req_slot,
      slot_type       |-> "starters",
      player_name     |-> "EMPTY SLOT - " \o req_slot,
      position        |-> IF req_slot # "FLEX" THEN req_slot ELSE "WR",
      nfl_team        |-> "",
      is_placeholder  |-> "Yes",
      issue_flag      |-> "MISSING_SLOT:" \o req_slot,
      rs_projected_pf |-> Num(0),
      rs_actual_pf    |-> Num(0),
      _orig_idx       |-> -1 ]

\* Variant of Placeholder: the placeholder is projected one point.
PlaceholderScoring(req_slot) ==
    [ slot            |-> req_slot,
      slot_type       |-> "starters",
      player_name     |-> "EMPTY SLOT - " \o req_slot,
      position        |-> IF req_slot # "FLEX" THEN req_slot ELSE "WR",
      nfl_team        |-> "",
      is_placeholder  |-> "Yes",
      issue_flag      |-> "MISSING_SLOT:" \o req_slot,
      rs_projected_pf |-> Num(1000),
      rs_actual_pf    |-> Num(0),
      _orig_idx       |-> PLACEHOLDER_ORIG_IDX ]

Placeholder(req_slot) ==
    [ slot            |-> req_slot,
      slot_type       |-> "starters",
      player_name     |-> "EMPTY SLOT - " \o req_slot,
      position        |-> IF req_slot # "FLEX" THEN req_slot ELSE "WR",
      nfl_team        |-> "",
      is_placeholder  |-> "Yes",
      issue_flag      |-> "MISSING_SLOT:" \o req_slot,
      rs_projected_pf |-> Num(0),
      rs_actual_pf    |-> Num(0),
      _orig_idx       |-> PLACEHOLDER_ORIG_IDX ]

\* Variant of MissingPlaceholders: a short slot gets one placeholder, whatever
\* the size of the shortfall.
MissingPlaceholdersOneEach(starters) ==
    LET have(req_slot) == CountIf(starters, LAMBDA r : r.slot = req_slot)
        missing(item) == IF have(item[1]) < item[2] THEN 1 ELSE 0
    IN  Flatten([k \in 1..Len(RFFL_LINEUP_REQUIREMENTS) |->
                    Repeat(Placeholder(RFFL_LINEUP_REQUIREMENTS[k][1]),
                           missing(RFFL_LINEUP_REQUIREMENTS[k]))])

\* Variant of MissingPlaceholders: every required slot gets as many
\* placeholders as it requires starters, whatever it already holds.
MissingPlaceholdersAlways(starters) ==
    Flatten([k \in 1..Len(RFFL_LINEUP_REQUIREMENTS) |->
                Repeat(Placeholder(RFFL_LINEUP_REQUIREMENTS[k][1]),
                       RFFL_LINEUP_REQUIREMENTS[k][2])])

\* The placeholders appended for the starters at hand, in the order of
\* RFFL_LINEUP_REQUIREMENTS.items().
MissingPlaceholders(starters) ==
    LET have(req_slot) == CountIf(starters, LAMBDA r : r.slot = req_slot)
        missing(item) == IF item[2] - have(item[1]) > 0
                         THEN item[2] - have(item[1]) ELSE 0
    IN  Flatten([k \in 1..Len(RFFL_LINEUP_REQUIREMENTS) |->
                    Repeat(Placeholder(RFFL_LINEUP_REQUIREMENTS[k][1]),
                           missing(RFFL_LINEUP_REQUIREMENTS[k]))])

\* The slots of xs in order of first appearance: the keys of starters_by_slot.
RECURSIVE SlotKeys(_, _)
SlotKeys(xs, seen) ==
    IF xs = <<>> THEN <<>>
    ELSE IF Head(xs).slot \in seen THEN SlotKeys(Tail(xs), seen)
    ELSE <<Head(xs).slot>> \o SlotKeys(Tail(xs), seen \cup {Head(xs).slot})

ByOrigIdx(a, b) == a._orig_idx < b._orig_idx

ByRankThenOrigIdx(a, b) ==
    \/ slot_rank(a.slot) < slot_rank(b.slot)
    \/ slot_rank(a.slot) = slot_rank(b.slot) /\ a._orig_idx < b._orig_idx

\* The loop over desired_order: pop the head of the slot's list when it has one.
RECURSIVE ConsumeDesired(_, _, _)
ConsumeDesired(i, by_slot, sorted) ==
    IF i > Len(desired_order) THEN [by_slot |-> by_slot, sorted |-> sorted]
    ELSE LET s == desired_order[i]
         IN  IF s \in DOMAIN by_slot /\ by_slot[s] # <<>>
             THEN ConsumeDesired(i + 1, [by_slot EXCEPT ![s] = Tail(@)],
                                 Append(sorted, Head(by_slot[s])))
             ELSE ConsumeDesired(i + 1, by_slot, sorted)

\* Variant of OrderStarters: every starter is sorted by slot rank, then index.
OrderStartersByRank(starters) == StableSort(starters, ByRankThenOrigIdx)

\* Variant of OrderStarters: the starters left over after the fixed sequence
\* are not appended.
OrderStartersNoLeftovers(starters) ==
    LET keys == SlotKeys(starters, {})
        starters_by_slot ==
            [s \in {keys[k] : k \in 1..Len(keys)} |->
                StableSort(SelectSeq(starters, LAMBDA r : r.slot = s), ByOrigIdx)]
    IN  ConsumeDesired(1, starters_by_slot, <<>>).sorted

\* starters_sorted: the fixed sequence first, the leftovers after it.
OrderStarters(starters) ==
    LET keys == SlotKeys(starters, {})
        starters_by_slot ==
            [s \in {keys[k] : k \in 1..Len(keys)} |->
                StableSort(SelectSeq(starters, LAMBDA r : r.slot = s), ByOrigIdx)]
        done == ConsumeDesired(1, starters_by_slot, <<>>)
        leftovers == Flatten([k \in 1..Len(keys) |-> done.by_slot[keys[k]]])
    IN  done.sorted \o StableSort(leftovers, ByRankThenOrigIdx)

\* Variant of TeamTotal: the sum runs over every stamped row, bench included.
TeamTotalAllRows(stamped, starters, field) ==
    round2(FSum([i \in 1..Len(stamped) |-> stamped[i][field]]))

\* Variant of TeamTotal: negative points are left out of the sum.
TeamTotalNonNegative(stamped, starters, field) ==
    round2(FSum(SelectSeq([i \in 1..Len(starters) |-> starters[i][field]],
                          LAMBDA x : x.nan \/ x.milli >= 0)))

\* team_proj / team_act: the rounded sum of one column over the starters.
TeamTotal(stamped, starters, field) ==
    round2(FSum([i \in 1..Len(starters) |-> starters[i][field]]))

\* starters: the stamped rows appended to it in the entry loop.
Classify(stamped) == SelectSeq(stamped, LAMBDA r : r.slot_type = "starters")

\* One team's lineup: ordered rows (with _orig_idx still on) and both totals.
BuildLineup(lineup, fill) ==
    LET stamped0  == List([i \in 1..Len(lineup) |-> StampedRow(lineup[i], i - 1)])
        starters0 == Classify(stamped0)
        added     == IF fill THEN MissingPlaceholders(starters0) ELSE <<>>
        starters  == starters0 \o added
        stamped   == stamped0 \o added
        team_proj == TeamTotal(stamped, starters, "rs_projected_pf")
        team_act  == TeamTotal(stamped, starters, "rs_actual_pf")
        bench_sorted ==
            StableSort(SelectSeq(stamped, LAMBDA r : r.slot_type # "starters"),
                       ByOrigIdx)
    IN  [ ordered   |-> OrderStarters(starters) \o bench_sorted,
          team_proj |-> team_proj,
          team_act  |-> team_act ]

\* Row(season_year=..., ..., **r) after r.pop("_orig_idx").  The owner
\* columns come from a metadata file and play no part in the core.
Row(side, b, r) ==
    [ season_year          |-> side.year,
      week                 |-> side.week,
      matchup              |-> side.matchup,
      team_code            |-> side.team_code,
      team_projected_total |-> b.team_proj,
      team_actual_total    |-> b.team_act,
      slot_type            |-> r.slot_type,
      slot                 |-> r.slot,
      player_name          |-> r.player_name,
      nfl_team             |-> r.nfl_team,
      position             |-> r.position,
      is_placeholder       |-> r.is_placeholder,
      issue_flag           |-> r.issue_flag,
      rs_projected_pf      |-> r.rs_projected_pf,
      rs_actual_pf         |-> r.rs_actual_pf ]

-----------------------------------------------------------------------------
(* pandas: the table on disk and the group-by of the starters *)

\* Team codes of the model, in sort order.
TEAM_CODES == <<"ALFA", "BRVO">>

TeamRank(code) == CHOOSE k \in 1..Len(TEAM_CODES) : TEAM_CODES[k] = code

\* DataFrame.to_csv: a missing value of a text column is written as an empty field.
CsvField(x) == IF x = None THEN "" ELSE x

to_csv(table) ==
    List([i \in 1..Len(table) |->
        [table[i] EXCEPT !.player_name = CsvField(@), !.nfl_team = CsvField(@),
                         !.position = CsvField(@), !.issue_flag = CsvField(@)]])

\* pandas.read_csv: an empty field, or one of the default NA spellings, is
\* read back as a null.
NA_VALUES == {"", "#N/A", "N/A", "NA", "NULL", "NaN", "n/a", "nan", "null"}

ReadField(x) == IF x \in NA_VALUES THEN None ELSE x

read_csv(table) ==
    List([i \in 1..Len(table) |->
        [table[i] EXCEPT !.player_name = ReadField(@), !.nfl_team = ReadField(@),
                         !.position = ReadField(@), !.issue_flag = ReadField(@),
                         !.slot = ReadField(@), !.team_code = ReadField(@)]])

\* The (week, matchup, team_code) keys of a frame; groupby drops null keys.
GroupKeys(frame) ==
    {<<frame[i].week, frame[i].matchup, frame[i].team_code>> :
        i \in {j \in 1..Len(frame) : frame[j].team_code # None}}

KeyLess(a, b) ==
    \/ a[1] < b[1]
    \/ a[1] = b[1] /\ a[2] < b[2]
    \/ a[1] = b[1] /\ a[2] = b[2] /\ TeamRank(a[3]) < TeamRank(b[3])

\* The keys in the order groupby (sort=True) visits them.
RECURSIVE SortedKeys(_)
SortedKeys(keys) ==
    IF keys = {} THEN <<>>
    ELSE LET least == CHOOSE a \in keys : \A b \in keys \ {a} : KeyLess(a, b)
         IN  <<least>> \o SortedKeys(keys \ {least})

Group(frame, key) ==
    SelectSeq(frame, LAMBDA r : <<r.week, r.matchup, r.team_code>> = key)

\* GroupBy "first": the first non-null value of the column, NaN when there is none.
RECURSIVE GroupFirst(_)
GroupFirst(xs) ==
    IF xs = <<>> THEN NaN
    ELSE IF ~Head(xs).nan THEN Head(xs)
    ELSE GroupFirst(Tail(xs))

\* GroupBy "sum": nulls are skipped.
GroupSum(xs) == FSum(SelectSeq(xs, LAMBDA x : ~x.nan))

\* One row of agg, with proj_diff and act_diff.
AggRow(group) ==
    LET col(field) == List([i \in 1..Len(group) |-> group[i][field]])
        tpt == GroupFirst(col("team_projected_total"))
        tat == GroupFirst(col("team_actual_total"))
        sps == GroupSum(col("rs_projected_pf"))
        sas == GroupSum(col("rs_actual_pf"))
    IN  [ team_projected_total |-> tpt,
          team_actual_total    |-> tat,
          starters_proj_sum    |-> sps,
          starters_actual_sum  |-> sas,
          starter_count        |-> CountIf(group, LAMBDA r : r.slot # None),
          proj_diff            |-> round2(FSub(sps, tpt)),
          act_diff             |-> round2(FSub(sas, tat)) ]

\* Variant of NotClean: the gate looks at the two sums only.
NotCleanSumsOnly(frame, tolerance) ==
    LET starters == SelectSeq(frame, LAMBDA r : r.slot_type = "starters")
    IN  \E key \in GroupKeys(starters) :
            LET a == AggRow(Group(starters, key))
            IN  \/ FGt(FAbs(a.proj_diff), tolerance)
                \/ FGt(FAbs(a.act_diff), tolerance)

\* Variant of NotClean: a difference equal to the tolerance is not clean.
NotCleanAtLeast(frame, tolerance) ==
    LET starters == SelectSeq(frame, LAMBDA r : r.slot_type = "starters")
    IN  \E key \in GroupKeys(starters) :
            LET a == AggRow(Group(starters, key))
            IN  \/ ~FGt(tolerance, FAbs(a.proj_diff))
                \/ ~FGt(tolerance, FAbs(a.act_diff))
                \/ a.starter_count # 9

\* The require_clean gate of _export: TRUE when it raises "Export not clean".
NotClean(frame, tolerance) ==
    LET starters == SelectSeq(frame, LAMBDA r : r.slot_type = "starters")
    IN  \E key \in GroupKeys(starters) :
            LET a == AggRow(Group(starters, key))
            IN  \/ FGt(FAbs(a.proj_diff), tolerance)
                \/ FGt(FAbs(a.act_diff), tolerance)
                \/ a.starter_count # 9

-----------------------------------------------------------------------------
(* cmd_validate: the reconciliation of a persisted table *)

\* The default of the --tolerance option.
DEFAULT_TOLERANCE == Num(0)

\* agg: one row per (week, matchup, team_code) group of the starters, in
\* groupby order.  (slots_list, a display column, is left out.)
Agg(starters) ==
    LET order == SortedKeys(GroupKeys(starters))
    IN  List([k \in 1..Len(order) |->
            [week |-> order[k][1], matchup |-> order[k][2], team_code |-> order[k][3]]
               @@ AggRow(Group(starters, order[k]))])

\* Variant of BadDiff: a difference equal to the tolerance is flagged too.
BadDiffAtLeast(agg, column, tolerance) ==
    SelectSeq(agg, LAMBDA a : FGt(FAbs(a[column]), tolerance)
                              \/ FEq(FAbs(a[column]), tolerance))

\* agg[agg[column].abs() > tolerance]
BadDiff(agg, column, tolerance) ==
    SelectSeq(agg, LAMBDA a : FGt(FAbs(a[column]), tolerance))

\* Variant of BadCount: only a group short of 9 starters is flagged.
BadCountShort(agg) == SelectSeq(agg, LAMBDA a : a.starter_count < 9)

\* agg[agg["starter_count"] != 9]
BadCount(agg) == SelectSeq(agg, LAMBDA a : a.starter_count # 9)

\* frame.assign(issue=...)
Assign(frame, issue) == List([i \in 1..Len(frame) |-> frame[i] @@ [issue |-> issue]])

\* The keys of a frame's rows in order, each once.
RECURSIVE FirstOfEachKey(_, _)
FirstOfEachKey(frame, seen) ==
    IF frame = <<>> THEN <<>>
    ELSE LET key == <<Head(frame).week, Head(frame).matchup, Head(frame).team_code>>
         IN  IF key \in seen THEN FirstOfEachKey(Tail(frame), seen)
             ELSE <<Head(frame)>> \o FirstOfEachKey(Tail(frame), seen \cup {key})

\* Variant of ReportRows: a group is reported once, under the first check it
\* fails.
ReportRowsOncePerGroup(bad_proj, bad_act, bad_cnt) ==
    FirstOfEachKey(Assign(bad_proj, "proj_mismatch") \o Assign(bad_act, "actual_mismatch")
                   \o Assign(bad_cnt, "starter_count"), {})

\* pd.concat([...], ignore_index=True): the rows of the detail report.
ReportRows(bad_proj, bad_act, bad_cnt) ==
    Assign(bad_proj, "proj_mismatch") \o Assign(bad_act, "actual_mismatch")
    \o Assign(bad_cnt, "starter_count")

-----------------------------------------------------------------------------
(* _validate_rffl_lineup *)

\* Series.value_counts(): the distinct non-null values in order of first
\* appearance (nulls are dropped).
RECURSIVE Distinct(_, _)
Distinct(xs, seen) ==
    IF xs = <<>> THEN <<>>
    ELSE IF Head(xs) = None \/ Head(xs) \in seen THEN Distinct(Tail(xs), seen)
    ELSE <<Head(xs)>> \o Distinct(Tail(xs), seen \cup {Head(xs)})

\* Variant of CountIssues: only a shortfall is reported, not a surplus.
CountIssuesShortOnly(starters_df) ==
    LET actual_count(position) == CountIf(starters_df, LAMBDA r : r.slot = position)
        items == SelectSeq(RFFL_LINEUP_REQUIREMENTS,
                           LAMBDA item : actual_count(item[1]) < item[2])
    IN  List([k \in 1..Len(items) |->
            [ type     |-> "count_mismatch",
              position |-> items[k][1],
              required |-> items[k][2],
              actual   |-> actual_count(items[k][1]) ]])

\* The issue dicts, without their "description" text.
CountIssues(starters_df) ==
    LET actual_count(position) == CountIf(starters_df, LAMBDA r : r.slot = position)
        items == SelectSeq(RFFL_LINEUP_REQUIREMENTS,
                           LAMBDA item : actual_count(item[1]) # item[2])
    IN  List([k \in 1..Len(items) |->
            [ type     |-> "count_mismatch",
              position |-> items[k][1],
              required |-> items[k][2],
              actual   |-> actual_count(items[k][1]) ]])

\* Variant of FlexIssues: the position is upper-cased before the test, as the
\* export does for its issue_flag.
FlexIssuesUpper(starters_df) ==
    LET flex_players ==
            SelectSeq(starters_df,
                      LAMBDA r : r.slot = "FLEX"
                                 /\ upper(Or(r.position, "")) \notin FLEX_ELIGIBLE_POSITIONS)
    IN  List([k \in 1..Len(flex_players) |->
            [ type     |-> "flex_ineligible",
              position |-> flex_players[k].position,
              player   |-> flex_players[k].player_name ]])

FlexIssues(starters_df) ==
    LET flex_players ==
            SelectSeq(starters_df,
                      LAMBDA r : r.slot = "FLEX"
                                 /\ r.position \notin FLEX_ELIGIBLE_POSITIONS)
    IN  List([k \in 1..Len(flex_players) |->
            [ type     |-> "flex_ineligible",
              position |-> flex_players[k].position,
              player   |-> flex_players[k].player_name ]])

\* The distinct values, null included, in order of first appearance.
RECURSIVE DistinctKeepNull(_, _)
DistinctKeepNull(xs, seen) ==
    IF xs = <<>> THEN <<>>
    ELSE IF Head(xs) \in seen THEN DistinctKeepNull(Tail(xs), seen)
    ELSE <<Head(xs)>> \o DistinctKeepNull(Tail(xs), seen \cup {Head(xs)})

\* Variant of DuplicateIssues: value_counts(dropna=False), nulls are counted.
DuplicateIssuesKeepNull(starters_df) ==
    LET names == List([i \in 1..Len(starters_df) |-> starters_df[i].player_name])
        count(player) == CountIf(names, LAMBDA x : x = player)
        MoreOften(a, b) == count(a) > count(b)
        player_counts == StableSort(DistinctKeepNull(names, {}), MoreOften)
        duplicates == SelectSeq(player_counts, LAMBDA player : count(player) > 1)
    IN  List([k \in 1..Len(duplicates) |->
            [ type   |-> "duplicate_player",
              player |-> duplicates[k],
              count  |-> count(duplicates[k]) ]])

\* value_counts() sorts by count, largest first; the order among equal counts
\* is taken to be that of first appearance.
DuplicateIssues(starters_df) ==
    LET names == List([i \in 1..Len(starters_df) |-> starters_df[i].player_name])
        count(player) == CountIf(names, LAMBDA x : x = player)
        MoreOften(a, b) == count(a) > count(b)
        player_counts == StableSort(Distinct(names, {}), MoreOften)
        duplicates == SelectSeq(player_counts, LAMBDA player : count(player) > 1)
    IN  List([k \in 1..Len(duplicates) |->
            [ type   |-> "duplicate_player",
              player |-> duplicates[k],
              count  |-> count(duplicates[k]) ]])

\* Variant of SlotPositionIssues: every single-position slot is held to its
\* own position, RB, WR and TE included.
SlotPositionIssuesEverySlot(starters_df) ==
    LET bad == SelectSeq(starters_df,
                         LAMBDA r : /\ r.slot \in {"QB", "RB", "WR", "TE", "K", "D/ST"}
                                    /\ r.position # r.slot)
    IN  List([k \in 1..Len(bad) |->
            [ type     |-> "invalid_position_in_slot",
              slot     |-> bad[k].slot,
              position |-> bad[k].position,
              player   |-> bad[k].player_name ]])

SlotPositionIssues(starters_df) ==
    LET bad == SelectSeq(starters_df,
                         LAMBDA r : \/ r.slot = "QB" /\ r.position # "QB"
                                    \/ r.slot = "K" /\ r.position # "K"
                                    \/ r.slot = "D/ST" /\ r.position # "D/ST")
    IN  List([k \in 1..Len(bad) |->
            [ type     |-> "invalid_position_in_slot",
              slot     |-> bad[k].slot,
              position |-> bad[k].position,
              player   |-> bad[k].player_name ]])

\* Variant of _validate_rffl_lineup: the checks stop at the first one that
\* finds an issue.
ValidateShortCircuit(starters_df) ==
    LET issues == IF CountIssues(starters_df) # <<>> THEN CountIssues(starters_df)
                  ELSE IF FlexIssues(starters_df) # <<>> THEN FlexIssues(starters_df)
                  ELSE IF DuplicateIssues(starters_df) # <<>>
                  THEN DuplicateIssues(starters_df)
                  ELSE SlotPositionIssues(starters_df)
    IN  [ is_valid     |-> Len(issues) = 0,
          issues       |-> issues,
          total_issues |-> Len(issues) ]

_validate_rffl_lineup(starters_df) ==
    LET issues == CountIssues(starters_df) \o FlexIssues(starters_df)
                  \o DuplicateIssues(starters_df) \o SlotPositionIssues(starters_df)
    IN  [ is_valid     |-> Len(issues) = 0,
          issues       |-> issues,
          total_issues |-> Len(issues) ]

-----------------------------------------------------------------------------
(* Inputs *)

\* Players a lineup may gain on top of its base lineup.
MaxFetch == 2

Player(slot_position, position, name, projected_points, points) ==
    [ slot_position    |-> slot_position,
      position         |-> position,
      name             |-> name,
      proTeam          |-> "",
      projected_points |-> projected_points,
      points           |-> points ]

Pts(m) == PyFloat(Num(m))

\* The lineup of test_validate_rffl_lineup_valid, as the upstream labels it.
ValidLineup ==
    << Player("QB", "QB", "QB1", Pts(10000), Pts(12000)),
       Player("RB", "RB", "RB1", Pts(10000), Pts(10000)),
       Player("RB", "RB", "RB2", Pts(10000), Pts(9000)),
       Player("WR", "WR", "WR1", Pts(10000), Pts(8000)),
       Player("WR", "WR", "WR2", Pts(10000), Pts(7000)),
       Player("TE", "TE", "TE1", Pts(10000), Pts(6000)),
       Player("RB/WR/TE", "RB", "RB3", Pts(8000), Pts(5000)),
       Player("D/ST", "D/ST", "DST1", Pts(5000), Pts(5000)),
       Player("K", "K", "K1", Pts(5000), Pts(5000)) >>

\* The lineup of test_validate_rffl_lineup_issues.
IssuesLineup ==
    << Player("QB", "QB", "QB1", Pts(10000), Pts(12000)),
       Player("RB", "RB", "RB1", Pts(10000), Pts(10000)),
       Player("WR", "WR", "WR1", Pts(10000), Pts(8000)),
       Player("WR", "WR", "WR2", Pts(10000), Pts(7000)),
       Player("TE", "TE", "TE1", Pts(10000), Pts(6000)),
       Player("RB/WR/TE", "QB", "QB2", Pts(8000), Pts(5000)),
       Player("D/ST", "D/ST", "DST1", Pts(5000), Pts(5000)),
       Player("K", "K", "K1", Pts(5000), Pts(5000)),
       Player("K", "K", "K2", Pts(5000), Pts(5000)) >>

BaseLineups == {<<>>, ValidLineup, IssuesLineup}

\* Further players: plain and odd slot and position labels, missing and
\* repeated names, missing, NaN, negative and 3-decimal points.
Players ==
    { Player("RB", "RB", "RB9", Pts(1234), Pts(5006)),
      Player("rb/wr/te", "QB", "QB9", Pts(125), Pts(-1236)),
      Player("FLEX", "wr", None, PyFloat(NaN), Pts(3000)),
      Player("WR", "RB", "RB8", Pts(7770), Pts(3000)),
      Player("IR", "RB", "RB9", Pts(4000), Pts(375)),
      Player(None, None, None, PyNone, PyNone),
      Player("", "rb/wr/te", "", Pts(1500), Pts(2500)),
      Player("xyz", "op", "", Pts(6000), Pts(6000)),
      Player(None, "DST", "DST9", Pts(3375), Pts(-500)),
      Player("QB", "WR", "WR1", Pts(9999), Pts(4)),
      Player("Flex", None, "FX9", PyStr("3.2"), PyStr("bad")) }

Tolerances == {Num(0), Num(20)}

\* The --tolerance option of cmd_validate: left out, or given.
ToleranceOptions ==
    {[given |-> FALSE]} \cup {[given |-> TRUE, value |-> x] : x \in Tolerances}

\* A lineup of bench entries only.
\* The objects _f is called on: absent, ints, floats, NaN, and strings.
PointObjects ==
    { PyNone, PyInt(1), PyFloat(Num(1250)), PyFloat(Num(-500)), PyFloat(Num(3375)),
      PyFloat(NaN), PyStr("3.2"), PyStr("-0.5"), PyStr(" 7 "), PyStr("bad"), PyStr(""),
      PyStr("nan"), PyStr("NaN") }

\* The defaults _f is called with: its own 0.0, and another.
Defaults == {Num(0), Num(7000)}

BenchOnlyLineup == << Player("BE", "WR", "WR9", Pts(7770), Pts(3000)) >>

\* The lineups of the leagues whose table is reconciled.
\* Odd labels, and 3-decimal, negative, NaN and missing points.
OddLineup ==
    << Player("RB", "RB", "RB9", Pts(1234), Pts(5006)),
       Player("rb/wr/te", "QB", "QB9", Pts(125), Pts(-1236)),
       Player("FLEX", "wr", None, PyFloat(NaN), Pts(3000)),
       Player("IR", "RB", "RB9", Pts(4000), Pts(375)),
       Player(None, None, None, PyNone, PyNone),
       Player(None, "DST", "DST9", Pts(3375), Pts(-500)),
       Player("", "rb/wr/te", "", PyStr("3.2"), PyStr("bad")) >>

ReconLineups == {<<>>, ValidLineup, IssuesLineup, BenchOnlyLineup, OddLineup}

\* What the stored totals of a file handed to cmd_validate are off by, in
\* thousandths.
Deltas == {0, -10, 4, 20, 30}

\* A file whose stored totals for team ALFA differ from the export's by dp and
\* da thousandths (totals reported upstream, or a file edited since).
OffBy(table, dp, da) ==
    List([i \in 1..Len(table) |->
        IF table[i].team_code = "ALFA"
        THEN [table[i] EXCEPT !.team_projected_total = FAdd(@, Num(dp)),
                              !.team_actual_total = FAdd(@, Num(da))]
        ELSE table[i]])

\* Two yearly files in one table: the season before, with the same lineups,
\* is appended.
TwoSeasons(table) ==
    table \o List([i \in 1..Len(table) |-> [table[i] EXCEPT !.season_year = @ - 1]])

\* The files csv_path may name: the export's file with its totals off by dp
\* and da, or two seasons of it in one table.
CsvPaths ==
    {[seasons |-> 1, dp |-> dp, da |-> da] : dp \in Deltas, da \in Deltas}
       \cup {[seasons |-> 2, dp |-> 0, da |-> 0]}

\* The content of the file csv_path names, given the file the export wrote.
CsvFile(table, csv_path) ==
    IF csv_path.seasons = 2 THEN TwoSeasons(table)
    ELSE OffBy(table, csv_path.dp, csv_path.da)

\* Labels handed to _norm_slot on its own.
SlotLabels ==
    { None, "", "QB", "qb", "RB", "WR", "TE", "K", "RB/WR/TE", "Rb/Wr/Te", "FLEX",
      "flex", "DST", "d/st", "Defense", "BE", "Bench", "IR", "ir", "OP", "xyz" }

PosLabels ==
    { None, "", "QB", "qb", "RB", "WR", "te", "K", "D/ST", "dst", "RB/WR/TE",
      "rb/wr/te", "FLEX", "BE", "IR", "OP", "xyz" }

-----------------------------------------------------------------------------
(* Specification *)

NoFile == [written |-> FALSE, table |-> <<>>]

NoReport == [written |-> FALSE, rows |-> <<>>]

NoLeague == <<>>

NoRecon == [csv |-> <<>>, given |-> FALSE, tolerance |-> Num(0), agg |-> <<>>,
            bad_proj |-> <<>>, bad_act |-> <<>>, bad_cnt |-> <<>>]

NoCoercion == [x |-> PyNone, default |-> Num(0), called |-> FALSE, value |-> Num(0)]

Side(lineup) ==
    [year |-> 2023, week |-> 1, matchup |-> 1, team_code |-> "ALFA", lineup |-> lineup]

AwaySide(lineup) ==
    [year |-> 2023, week |-> 1, matchup |-> 1, team_code |-> "BRVO", lineup |-> lineup]

\* One box score: the home side alone, or both sides.
ReconLeagues ==
    {<<Side(home)>> : home \in ReconLineups}
       \cup {<<Side(home), AwaySide(away)>> : home \in ReconLineups, away \in ReconLineups}

Init ==
    /\ raw_slot = None /\ raw_pos = None /\ norm = None /\ starter = FALSE
    /\ league \in {<<Side(lineup)>> : lineup \in BaseLineups}
    /\ fetches = 0
    /\ fill_missing_slots = FALSE /\ require_clean = FALSE
    /\ export_tolerance = Num(0)
    /\ built = <<>> /\ df = <<>>
    /\ out_csv = NoFile /\ error = ""
    /\ validation = <<>> /\ report = NoReport
    /\ recon = NoRecon /\ recon_report = NoReport
    /\ coercion = NoCoercion
    /\ pc = "fetched"

\* The upstream lineup of the side being fetched gains one more player.
FetchPlayer(bp) ==
    /\ UNCHANGED << coercion, export_tolerance >>
    /\ pc = "fetched"
    /\ fetches < MaxFetch
    /\ league' = [league EXCEPT ![Len(league)].lineup = Append(@, bp)]
    /\ fetches' = fetches + 1
    /\ UNCHANGED << raw_slot, raw_pos, norm, starter, fill_missing_slots, require_clean,
                    built, df, out_csv, error, validation, report, recon,
                    recon_report, pc >>

\* The rows.append loop over one side's ordered rows.
SideRows(side, b) == List([i \in 1..Len(b.ordered) |-> Row(side, b, b.ordered[i])])

\* _export (through cmd_export, which reports an exception and exits).
Export(fill, clean, tolerance) ==
    /\ UNCHANGED coercion
    /\ export_tolerance' = tolerance
    /\ pc = "fetched"
    /\ LET b == List([k \in 1..Len(league) |-> BuildLineup(league[k].lineup, fill)])
           rows == Flatten([k \in 1..Len(league) |-> SideRows(league[k], b[k])])
       IN  /\ built' = b
           /\ df' = rows
           /\ IF clean /\ rows = <<>>
              THEN \* a frame without rows has no columns: df["slot_type"]
                   /\ error' = "KeyError"
                   /\ UNCHANGED out_csv
              ELSE IF clean /\ NotClean(rows, tolerance)
              THEN /\ error' = "RuntimeError"
                   /\ UNCHANGED out_csv
              ELSE /\ error' = ""
                   /\ out_csv' = [written |-> TRUE, table |-> to_csv(rows)]
    /\ fill_missing_slots' = fill
    /\ require_clean' = clean
    /\ pc' = "exported"
    /\ UNCHANGED << raw_slot, raw_pos, norm, starter, league, fetches, validation, report,
                    recon, recon_report >>

\* One row of lineup_issues.
IssueRow(key, issue) == [week |-> key[1], matchup |-> key[2], team_code |-> key[3], issue |-> issue]

\* cmd_validate_lineup on the file the export wrote.
cmd_validate_lineup ==
    /\ UNCHANGED << coercion, export_tolerance >>
    /\ pc = "exported"
    /\ out_csv.written
    /\ IF out_csv.table = <<>>
       THEN \* a file without columns: read_csv raises EmptyDataError, or the
            \* column lookup raises KeyError, as the pandas version has it
            /\ error' \in {"EmptyDataError", "KeyError"}
            /\ UNCHANGED << validation, report >>
       ELSE LET frame == read_csv(out_csv.table)
                starters == SelectSeq(frame, LAMBDA r : r.slot_type = "starters")
                keys == GroupKeys(starters)
                order == SortedKeys(keys)
                result == List([k \in 1..Len(order) |->
                                  _validate_rffl_lineup(Group(starters, order[k]))])
                lineup_issues ==
                    Flatten([k \in 1..Len(order) |->
                               List([i \in 1..Len(result[k].issues) |->
                                       IssueRow(order[k], result[k].issues[i])])])
            IN  /\ validation' = [key \in keys |->
                                     result[CHOOSE k \in 1..Len(order) : order[k] = key]]
                /\ report' = IF lineup_issues # <<>>
                             THEN [written |-> TRUE, rows |-> lineup_issues]
                             ELSE report
                /\ error' = ""
    /\ pc' = "validated"
    /\ UNCHANGED << raw_slot, raw_pos, norm, starter, league, fetches, fill_missing_slots,
                    require_clean, built, df, out_csv, recon, recon_report >>

\* cmd_validate on the file csv_path names, with or without --tolerance.
cmd_validate(csv_path, option) ==
    /\ UNCHANGED << coercion, export_tolerance >>
    /\ pc = "exported"
    /\ out_csv.written
    /\ IF CsvFile(out_csv.table, csv_path) = <<>>
       THEN \* a file without columns, as in cmd_validate_lineup
            /\ error' \in {"EmptyDataError", "KeyError"}
            /\ UNCHANGED << recon, recon_report >>
       ELSE LET tolerance == IF option.given THEN option.value ELSE DEFAULT_TOLERANCE
                csv == CsvFile(out_csv.table, csv_path)
                frame == read_csv(csv)
                starters == SelectSeq(frame, LAMBDA r : r.slot_type = "starters")
                agg == Agg(starters)
                bad_proj == BadDiff(agg, "proj_diff", tolerance)
                bad_act == BadDiff(agg, "act_diff", tolerance)
                bad_cnt == BadCount(agg)
            IN  /\ recon' = [ csv |-> csv, given |-> option.given, tolerance |-> tolerance,
                              agg |-> agg, bad_proj |-> bad_proj, bad_act |-> bad_act,
                              bad_cnt |-> bad_cnt ]
                /\ recon_report' =
                      IF bad_proj # <<>> \/ bad_act # <<>> \/ bad_cnt # <<>>
                      THEN [written |-> TRUE, rows |-> ReportRows(bad_proj, bad_act, bad_cnt)]
                      ELSE recon_report
                /\ error' = ""
    /\ pc' = "reconciled"
    /\ UNCHANGED << raw_slot, raw_pos, norm, starter, league, fetches, fill_missing_slots,
                    require_clean, built, df, out_csv, validation, report >>

Next ==
    \/ \E bp \in Players : FetchPlayer(bp)
    \/ \E fill \in BOOLEAN, clean \in BOOLEAN, tolerance \in Tolerances :
          Export(fill, clean, tolerance)
    \/ cmd_validate_lineup

Spec == Init /\ [][Next]_vars

\* An export of one box score, then cmd_validate on a file.
InitRecon ==
    /\ raw_slot = None /\ raw_pos = None /\ norm = None /\ starter = FALSE
    /\ league \in ReconLeagues
    /\ fetches = 0
    /\ fill_missing_slots = FALSE /\ require_clean = FALSE
    /\ export_tolerance = Num(0)
    /\ built = <<>> /\ df = <<>>
    /\ out_csv = NoFile /\ error = ""
    /\ validation = <<>> /\ report = NoReport
    /\ recon = NoRecon /\ recon_report = NoReport
    /\ coercion = NoCoercion
    /\ pc = "fetched"

NextRecon ==
    \/ \E fill \in BOOLEAN, clean \in BOOLEAN, tolerance \in Tolerances :
          Export(fill, clean, tolerance)
    \/ \E csv_path \in CsvPaths, option \in ToleranceOptions :
          cmd_validate(csv_path, option)

SpecRecon == InitRecon /\ [][NextRecon]_vars

\* _f on its own, next to an export of one player whose points are the same
\* kind of objects.
InitCoerce ==
    /\ raw_slot = None /\ raw_pos = None /\ norm = None /\ starter = FALSE
    /\ coercion \in {[x |-> x, default |-> d, called |-> FALSE, value |-> d] :
                        x \in PointObjects, d \in Defaults}
    /\ league \in {<<Side(<<Player("QB", "QB", "QB1", coercion.x, y)>>)>> :
                      y \in PointObjects}
    /\ fetches = 0
    /\ fill_missing_slots = FALSE /\ require_clean = FALSE
    /\ export_tolerance = Num(0)
    /\ built = <<>> /\ df = <<>>
    /\ out_csv = NoFile /\ error = ""
    /\ validation = <<>> /\ report = NoReport
    /\ recon = NoRecon /\ recon_report = NoReport
    /\ pc = "fetched"

\* One call _f(x, default).
Coerce ==
    /\ ~coercion.called
    /\ coercion' = [coercion EXCEPT !.called = TRUE,
                                    !.value = _f(coercion.x, coercion.default)]
    /\ UNCHANGED << raw_slot, raw_pos, norm, starter, league, fetches, fill_missing_slots,
                    require_clean, built, df, out_csv, error, validation, report,
                    recon, recon_report, export_tolerance, pc >>

NextCoerce ==
    \/ Coerce
    \/ \E fill \in BOOLEAN, clean \in BOOLEAN, tolerance \in Tolerances :
          Export(fill, clean, tolerance)

SpecCoerce == InitCoerce /\ [][NextCoerce]_vars

\* _norm_slot and _is_starter on their own, over every pair of labels.
InitNorm ==
    /\ raw_slot \in SlotLabels /\ raw_pos \in PosLabels
    /\ norm = None /\ starter = FALSE
    /\ league = NoLeague
    /\ fetches = 0
    /\ fill_missing_slots = FALSE /\ require_clean = FALSE
    /\ export_tolerance = Num(0)
    /\ built = <<>> /\ df = <<>>
    /\ out_csv = NoFile /\ error = ""
    /\ validation = <<>> /\ report = NoReport
    /\ recon = NoRecon /\ recon_report = NoReport
    /\ coercion = NoCoercion
    /\ pc = "labels"

NormSlot ==
    /\ UNCHANGED << coercion, export_tolerance >>
    /\ pc = "labels"
    /\ norm' = _norm_slot(raw_slot, raw_pos)
    /\ pc' = "normalized"
    /\ UNCHANGED << raw_slot, raw_pos, starter, league, fetches, fill_missing_slots,
                    require_clean, built, df, out_csv, error, validation, report,
                    recon, recon_report >>

IsStarter ==
    /\ UNCHANGED << coercion, export_tolerance >>
    /\ pc = "normalized"
    /\ starter' = _is_starter(norm)
    /\ pc' = "classified"
    /\ UNCHANGED << raw_slot, raw_pos, norm, league, fetches, fill_missing_slots,
                    require_clean, built, df, out_csv, error, validation, report,
                    recon, recon_report >>

NextNorm == NormSlot \/ IsStarter

SpecNorm == InitNorm /\ [][NextNorm]_vars

-----------------------------------------------------------------------------
(* Properties of _norm_slot and _is_starter, under SpecNorm *)

CanonicalSlots == {"QB", "RB", "WR", "TE", "FLEX", "D/ST", "K", "Bench", "IR"}

Normalized == pc \in {"normalized", "classified"}

\* The labels as the rules compare them: absent is empty, letters upper-cased.
UpSlot == upper(Or(raw_slot, ""))

UpPos == upper(Or(raw_pos, ""))

\* The slot label is one that rules 1-5 know; the position label one that
\* rules 6-7 know.
SlotRecognized ==
    UpSlot \in {"RB/WR/TE", "FLEX", "DST", "D/ST", "DEFENSE", "BE", "BENCH", "IR",
                "QB", "RB", "WR", "TE", "K"}

PosRecognized == UpPos \in {"QB", "RB", "WR", "TE", "K", "D/ST", "DST"}

RuleTable ==
    << <<UpSlot \in {"RB/WR/TE", "FLEX"}, "FLEX">>,
       <<UpSlot \in {"DST", "D/ST", "DEFENSE"}, "D/ST">>,
       <<UpSlot \in {"BE", "BENCH"}, "Bench">>,
       <<UpSlot = "IR", "IR">>,
       <<UpSlot \in {"QB", "RB", "WR", "TE", "K"}, UpSlot>>,
       <<UpPos \in {"QB", "RB", "WR", "TE", "K"}, UpPos>>,
       <<UpPos \in {"D/ST", "DST"}, "D/ST">>,
       <<TRUE, IF UpSlot # "" THEN UpSlot ELSE IF UpPos # "" THEN UpPos ELSE "Bench">> >>

FirstMatch ==
    RuleTable[CHOOSE k \in 1..Len(RuleTable) :
                 RuleTable[k][1] /\ \A j \in 1..(k - 1) : ~RuleTable[j][1]][2]

\* C5: normalizeSlot is the first matching rule of the 8-rule table on the
\* upper-cased labels; a recognized slot label decides the result whatever the
\* position label is; labels differing only in letter case give the same result.
C5_RuleTable ==
    Normalized =>
        /\ norm = FirstMatch
        /\ SlotRecognized =>
              \A p2 \in PosLabels : _norm_slot(raw_slot, p2) = norm
        /\ \A s2 \in SlotLabels, p2 \in PosLabels :
              (upper(Or(s2, "")) = UpSlot /\ upper(Or(p2, "")) = UpPos)
                 => _norm_slot(s2, p2) = norm

\* A lower-case plain slot label next to a different recognized position label.
C5_Witness ==
    /\ Normalized
    /\ raw_slot = "qb" /\ raw_pos = "RB"
    /\ norm = "QB"

\* C6 as stated: normalizeSlot never returns RB/WR/TE, so no normalized slot
\* matches the RB/WR/TE member of the starter-slot set.
C6_Original == Normalized => norm # "RB/WR/TE"

\* C6 as amended: normalizeSlot returns RB/WR/TE exactly when the slot label is
\* absent or empty and the position label upper-cases to RB/WR/TE (a slot label
\* RB/WR/TE is always rewritten to FLEX); that result is classified a starter.
C6_AliasOnlyFromPosition ==
    /\ Normalized =>
          (norm = "RB/WR/TE" <=> (UpSlot = "" /\ UpPos = "RB/WR/TE"))
    /\ (Normalized /\ UpSlot = "RB/WR/TE") => norm = "FLEX"
    /\ (pc = "classified" /\ norm = "RB/WR/TE") => starter

\* The position label alone produced RB/WR/TE, and it was classified a starter.
C6_Witness ==
    /\ pc = "classified"
    /\ raw_slot \in {None, ""} /\ raw_pos = "rb/wr/te"
    /\ norm = "RB/WR/TE" /\ starter

-----------------------------------------------------------------------------
(* Properties of the lineup build and of the validator, under Spec *)

Exported == pc \in {"exported", "validated"}

StarterRows(rows) == SelectSeq(rows, LAMBDA r : r.slot_type = "starters")

Column(rows, field) == List([i \in 1..Len(rows) |-> rows[i][field]])

\* C1: in every built lineup, with or without filling, each team total equals
\* the 2-decimal rounding of the sum of the rounded points of exactly the
\* output rows typed starters (placeholders included, bench rows excluded).
C1_StarterSumIdentity ==
    Exported =>
        \A k \in 1..Len(built) :
            LET st == StarterRows(built[k].ordered)
            IN  /\ FEq(built[k].team_proj, round2(FSum(Column(st, "rs_projected_pf"))))
                /\ FEq(built[k].team_act, round2(FSum(Column(st, "rs_actual_pf"))))

\* A filled lineup with a scoring real starter, a placeholder and a scoring
\* bench row.
C1_Witness ==
    /\ Exported /\ fill_missing_slots
    /\ \E i, j, m \in 1..Len(built[1].ordered) :
          LET r == built[1].ordered
          IN  /\ r[i].slot_type = "starters" /\ r[i].is_placeholder = "No"
              /\ r[i].rs_projected_pf.milli # 0
              /\ r[j].is_placeholder = "Yes"
              /\ r[m].slot_type = "bench" /\ r[m].rs_projected_pf.milli # 0

EmptyFilled == league[1].lineup = <<>> /\ fill_missing_slots

\* C2: the validator finds the 9 placeholder starters built for an empty
\* lineup with fill_missing_slots valid, with no issue of any kind.
C2_PlaceholdersValid ==
    (pc = "validated" /\ error = "" /\ EmptyFilled) =>
        /\ DOMAIN validation # {}
        /\ \A key \in DOMAIN validation :
              /\ validation[key].is_valid
              /\ validation[key].issues = <<>>

\* C3: an empty lineup built with fill_missing_slots gives exactly 9 rows, all
\* placeholders typed starters: 1 QB, 2 RB, 2 WR, 1 TE, 1 FLEX, 1 D/ST, 1 K,
\* each flagged MISSING_SLOT:<its slot> with zero points; both totals are 0.
C3_PlaceholderCompleteness ==
    (Exported /\ EmptyFilled) =>
        LET r == built[1].ordered
            n(slot) == CountIf(r, LAMBDA x : x.slot = slot)
        IN  /\ Len(r) = 9
            /\ \A i \in 1..Len(r) :
                  /\ r[i].slot_type = "starters"
                  /\ r[i].is_placeholder = "Yes"
                  /\ r[i].issue_flag = "MISSING_SLOT:" \o r[i].slot
                  /\ r[i].rs_projected_pf = Num(0)
                  /\ r[i].rs_actual_pf = Num(0)
            /\ n("QB") = 1 /\ n("RB") = 2 /\ n("WR") = 2 /\ n("TE") = 1
            /\ n("FLEX") = 1 /\ n("D/ST") = 1 /\ n("K") = 1
            /\ built[1].team_proj = Num(0)
            /\ built[1].team_act = Num(0)
            /\ Len(df) = 9

C3_Witness == Exported /\ EmptyFilled /\ Len(built[1].ordered) = 9

\* C7: every output row, real or placeholder, is typed starters exactly when
\* its slot is one of QB, RB, WR, TE, D/ST, K, FLEX, RB/WR/TE, and bench
\* otherwise; Bench and IR rows are never starters and add nothing to the
\* team totals, which sum the rows of those eight slots only.
C7_SlotTypeFromSlot ==
    Exported =>
        \A k \in 1..Len(built) :
            LET r == built[k].ordered
                in8 == SelectSeq(r, LAMBDA x : x.slot \in {"QB", "RB", "WR", "TE", "D/ST",
                                                           "K", "FLEX", "RB/WR/TE"})
            IN  /\ \A i \in 1..Len(r) :
                      /\ r[i].slot_type = (IF r[i].slot \in {"QB", "RB", "WR", "TE", "D/ST",
                                                              "K", "FLEX", "RB/WR/TE"}
                                           THEN "starters" ELSE "bench")
                      /\ r[i].slot \in {"Bench", "IR"} => r[i].slot_type = "bench"
                /\ FEq(built[k].team_proj, round2(FSum(Column(in8, "rs_projected_pf"))))
                /\ FEq(built[k].team_act, round2(FSum(Column(in8, "rs_actual_pf"))))

\* Scoring Bench and IR rows, a row of an unknown slot, a placeholder and a
\* real starter in one lineup.
C7_Witness ==
    /\ Exported
    /\ \E i, j \in 1..Len(built[1].ordered) :
          LET r == built[1].ordered
          IN  /\ r[i].slot \in {"Bench", "IR"} /\ r[i].rs_projected_pf.milli # 0
              /\ r[j].slot \notin {"Bench", "IR"} /\ r[j].slot_type = "bench"
    /\ \E i, j \in 1..Len(built[1].ordered) :
          LET r == built[1].ordered
          IN  /\ r[i].is_placeholder = "Yes"
              /\ r[j].is_placeholder = "No" /\ r[j].slot_type = "starters"

-----------------------------------------------------------------------------

Validated == pc = "validated" /\ error = ""

\* The starter set the validator was handed for a team-week.
ValidatedStarters(key) == Group(StarterRows(read_csv(out_csv.table)), key)

IssuesOfType(key, type) ==
    SelectSeq(validation[key].issues, LAMBDA x : x.type = type)

\* C8: the validator emits exactly one count_mismatch issue, with the slot and
\* its required and actual counts, for each of the 7 required slots whose
\* count differs from the required count (over or under), and none for any
\* other slot; 1 RB and 2 K in an otherwise correctly counted set give exactly
\* the issues RB (required 2, actual 1) and K (required 1, actual 2).
C8_CountMismatch ==
    Validated =>
        \A key \in DOMAIN validation :
            LET st == ValidatedStarters(key)
                cm == IssuesOfType(key, "count_mismatch")
                n(slot) == CountIf(st, LAMBDA x : x.slot = slot)
                required == [QB |-> 1, RB |-> 2, WR |-> 2, TE |-> 1, FLEX |-> 1,
                             K |-> 1] @@ ("D/ST" :> 1)
                about(slot) == SelectSeq(cm, LAMBDA x : x.position = slot)
            IN  /\ \A slot \in DOMAIN required :
                      IF n(slot) # required[slot]
                      THEN about(slot) = << [ type |-> "count_mismatch", position |-> slot,
                                              required |-> required[slot],
                                              actual |-> n(slot) ] >>
                      ELSE about(slot) = <<>>
                /\ \A i \in 1..Len(cm) : cm[i].position \in DOMAIN required
                /\ ( /\ n("QB") = 1 /\ n("RB") = 1 /\ n("WR") = 2 /\ n("TE") = 1
                     /\ n("FLEX") = 1 /\ n("D/ST") = 1 /\ n("K") = 2 )
                      => cm = << [ type |-> "count_mismatch", position |-> "RB",
                                   required |-> 2, actual |-> 1 ],
                                 [ type |-> "count_mismatch", position |-> "K",
                                   required |-> 1, actual |-> 2 ] >>

\* The starter set with 1 RB and 2 K was validated.
C8_Witness ==
    /\ Validated
    /\ \E key \in DOMAIN validation :
          LET st == ValidatedStarters(key)
              n(slot) == CountIf(st, LAMBDA x : x.slot = slot)
          IN  /\ n("QB") = 1 /\ n("RB") = 1 /\ n("WR") = 2 /\ n("TE") = 1
              /\ n("FLEX") = 1 /\ n("D/ST") = 1 /\ n("K") = 2
              /\ Len(st) = 9
              /\ Len(IssuesOfType(key, "count_mismatch")) = 2

\* C9: the validator emits exactly one flex_ineligible issue per row whose
\* slot is FLEX and whose position is not RB, WR or TE, and none for any other
\* row.
C9_FlexEligibility ==
    Validated =>
        \A key \in DOMAIN validation :
            LET st == ValidatedStarters(key)
                fi == IssuesOfType(key, "flex_ineligible")
                offending == SelectSeq(st, LAMBDA x : x.slot = "FLEX"
                                                      /\ x.position \notin {"RB", "WR", "TE"})
            IN  /\ Len(fi) = Len(offending)
                /\ \A i \in 1..Len(fi) :
                      /\ fi[i].position = offending[i].position
                      /\ fi[i].player = offending[i].player_name

\* A set with an offending FLEX row, an eligible FLEX row and a QB-position
\* row outside FLEX; one issue.
C9_Witness ==
    /\ Validated
    /\ \E key \in DOMAIN validation :
          LET st == ValidatedStarters(key)
          IN  /\ \E i, j, m \in 1..Len(st) :
                    /\ st[i].slot = "FLEX" /\ st[i].position = "QB"
                    /\ st[j].slot = "FLEX" /\ st[j].position = "RB"
                    /\ st[m].slot = "QB" /\ st[m].position = "QB"
              /\ Len(IssuesOfType(key, "flex_ineligible")) = 1

\* The player_name values of a starter set, null included.
NameValues(st) == {st[i].player_name : i \in 1..Len(st)}

\* C10 as stated: one duplicate_player issue, carrying the number of
\* occurrences, for each player_name value that occurs more than once among
\* the starters, a missing name counting as a value like any other.
C10_Original ==
    Validated =>
        \A key \in DOMAIN validation :
            LET st == ValidatedStarters(key)
                dp == IssuesOfType(key, "duplicate_player")
                n(name) == CountIf(st, LAMBDA x : x.player_name = name)
            IN  /\ \A name \in NameValues(st) :
                      SelectSeq(dp, LAMBDA x : x.player = name)
                         = (IF n(name) > 1
                            THEN << [ type |-> "duplicate_player", player |-> name,
                                      count |-> n(name) ] >>
                            ELSE <<>>)
                /\ \A i \in 1..Len(dp) : dp[i].player \in NameValues(st)

\* C10 as amended: one duplicate_player issue, carrying the number of
\* occurrences, for each non-null player_name value that occurs more than once
\* among the starters handed to the validator; a missing name is null there
\* and nulls are not counted, so starters that lack a name yield no issue.
C10_DuplicateNonNull ==
    Validated =>
        \A key \in DOMAIN validation :
            LET st == ValidatedStarters(key)
                dp == IssuesOfType(key, "duplicate_player")
                n(name) == CountIf(st, LAMBDA x : x.player_name = name)
            IN  /\ \A name \in NameValues(st) \ {None} :
                      SelectSeq(dp, LAMBDA x : x.player = name)
                         = (IF n(name) > 1
                            THEN << [ type |-> "duplicate_player", player |-> name,
                                      count |-> n(name) ] >>
                            ELSE <<>>)
                /\ \A i \in 1..Len(dp) : dp[i].player \in NameValues(st) \ {None}

\* Two starters without a name next to a name that occurs twice: one issue,
\* for the name.
C10_Witness ==
    /\ Validated
    /\ \E key \in DOMAIN validation :
          LET st == ValidatedStarters(key)
              dp == IssuesOfType(key, "duplicate_player")
          IN  /\ CountIf(st, LAMBDA x : x.player_name = None) >= 2
              /\ \E i \in 1..Len(dp) : dp[i].count = 2
              /\ \A i \in 1..Len(dp) : dp[i].player # None

-----------------------------------------------------------------------------

\* A starter set that is legal but for what the slot/position check looks at
\* in the RB, WR and TE slots: the required counts, FLEX rows of position RB,
\* WR or TE, no name twice, and QB, K and D/ST rows of their own position.
LegalButForOpenSlots(st) ==
    LET n(slot) == CountIf(st, LAMBDA x : x.slot = slot)
    IN  /\ n("QB") = 1 /\ n("RB") = 2 /\ n("WR") = 2 /\ n("TE") = 1
        /\ n("FLEX") = 1 /\ n("D/ST") = 1 /\ n("K") = 1
        /\ Len(st) = 9
        /\ \A i \in 1..Len(st) :
              /\ st[i].slot = "FLEX" => st[i].position \in {"RB", "WR", "TE"}
              /\ st[i].slot \in {"QB", "K", "D/ST"} => st[i].position = st[i].slot
              /\ st[i].player_name # None
        /\ \A i, j \in 1..Len(st) : i # j => st[i].player_name # st[j].player_name

\* C11: the validator emits one invalid_position_in_slot issue, with slot,
\* position and player, per row in slot QB whose position is not QB, per row
\* in slot K whose position is not K and per row in slot D/ST whose position
\* is not D/ST, in row order, and none for a row in slot RB, WR, TE or FLEX; a
\* WR slot holding an RB-position player in an otherwise legal lineup leaves
\* is_valid true.
C11_SlotPositionConsistency ==
    Validated =>
        \A key \in DOMAIN validation :
            LET st == ValidatedStarters(key)
                ip == IssuesOfType(key, "invalid_position_in_slot")
                offending ==
                    SelectSeq(st, LAMBDA x : \/ x.slot = "QB" /\ x.position # "QB"
                                             \/ x.slot = "K" /\ x.position # "K"
                                             \/ x.slot = "D/ST" /\ x.position # "D/ST")
            IN  /\ Len(ip) = Len(offending)
                /\ \A i \in 1..Len(ip) :
                      /\ ip[i].slot = offending[i].slot
                      /\ ip[i].position = offending[i].position
                      /\ ip[i].player = offending[i].player_name
                      /\ ip[i].slot \notin {"RB", "WR", "TE", "FLEX"}
                /\ LegalButForOpenSlots(st) => validation[key].is_valid

\* A legal lineup whose WR slot holds an RB-position player was validated and
\* found valid.
C11_Witness ==
    /\ Validated
    /\ \E key \in DOMAIN validation :
          LET st == ValidatedStarters(key)
          IN  /\ LegalButForOpenSlots(st)
              /\ \E i \in 1..Len(st) : st[i].slot = "WR" /\ st[i].position = "RB"
              /\ validation[key].is_valid

\* C12: the validator runs all four checks whatever the others find: its
\* issue list holds the issues of the count, FLEX-eligibility, duplicate and
\* slot/position checks and nothing else, total_issues is the length of the
\* list, is_valid is true exactly when the list is empty, and a legal lineup
\* with distinct names gives is_valid true and 0 issues.
C12_AllChecksCollected ==
    Validated =>
        \A key \in DOMAIN validation :
            LET st == ValidatedStarters(key)
                v == validation[key]
                n(slot) == CountIf(st, LAMBDA x : x.slot = slot)
                count(name) == CountIf(st, LAMBDA x : x.player_name = name)
                required == [QB |-> 1, RB |-> 2, WR |-> 2, TE |-> 1, FLEX |-> 1,
                             K |-> 1] @@ ("D/ST" :> 1)
                nCount == Cardinality({slot \in DOMAIN required : n(slot) # required[slot]})
                nFlex == CountIf(st, LAMBDA x : x.slot = "FLEX"
                                                /\ x.position \notin {"RB", "WR", "TE"})
                nDup == Cardinality({name \in NameValues(st) \ {None} : count(name) > 1})
                nPos == CountIf(st, LAMBDA x : /\ x.slot \in {"QB", "K", "D/ST"}
                                               /\ x.position # x.slot)
            IN  /\ Len(IssuesOfType(key, "count_mismatch")) = nCount
                /\ Len(IssuesOfType(key, "flex_ineligible")) = nFlex
                /\ Len(IssuesOfType(key, "duplicate_player")) = nDup
                /\ Len(IssuesOfType(key, "invalid_position_in_slot")) = nPos
                /\ Len(v.issues) = nCount + nFlex + nDup + nPos
                /\ v.total_issues = Len(v.issues)
                /\ v.is_valid <=> (v.issues = <<>>)
                /\ ( LegalButForOpenSlots(st)
                     /\ \A i \in 1..Len(st) :
                           st[i].slot \in {"RB", "WR", "TE"} => st[i].position = st[i].slot )
                      => (v.is_valid /\ v.total_issues = 0)

\* A starter set in which each of the four checks finds something.
C12_Witness ==
    /\ Validated
    /\ \E key \in DOMAIN validation :
          /\ IssuesOfType(key, "count_mismatch") # <<>>
          /\ IssuesOfType(key, "flex_ineligible") # <<>>
          /\ IssuesOfType(key, "duplicate_player") # <<>>
          /\ IssuesOfType(key, "invalid_position_in_slot") # <<>>
          /\ ~validation[key].is_valid

-----------------------------------------------------------------------------

\* The raw entry an output row was built from.
RawEntry(k, row) == league[k].lineup[row._orig_idx + 1]

IsPlaceholder(row) == row.is_placeholder = "Yes"

\* C18: among the output starter rows of one built lineup that share a slot,
\* the real entries appear in ascending order of their index in the raw list,
\* and every placeholder of the slot comes after every real entry of the slot.
C18_SameSlotOrder ==
    Exported =>
        \A k \in 1..Len(built) :
            LET r == StarterRows(built[k].ordered)
            IN  /\ \A i \in 1..Len(r) :
                      ~IsPlaceholder(r[i]) =>
                          /\ r[i]._orig_idx \in 0..(Len(league[k].lineup) - 1)
                          /\ r[i].player_name = RawEntry(k, r[i]).name
                /\ \A i, j \in 1..Len(r) :
                      (i < j /\ r[i].slot = r[j].slot) =>
                          /\ (~IsPlaceholder(r[i]) /\ ~IsPlaceholder(r[j]))
                                => r[i]._orig_idx < r[j]._orig_idx
                          /\ ~(IsPlaceholder(r[i]) /\ ~IsPlaceholder(r[j]))

\* A slot with a real entry followed by its placeholder, and a slot with two
\* real entries, a row of another slot between them in the raw list.
C18_Witness ==
    /\ Exported /\ fill_missing_slots
    /\ \E i, j \in 1..Len(built[1].ordered) :
          LET r == built[1].ordered
          IN  /\ i < j /\ r[i].slot = r[j].slot /\ r[i].slot_type = "starters"
              /\ ~IsPlaceholder(r[i]) /\ IsPlaceholder(r[j])
    /\ \E i, j \in 1..Len(built[1].ordered) :
          LET r == built[1].ordered
          IN  /\ i < j /\ r[i].slot = r[j].slot /\ r[i].slot_type = "starters"
              /\ ~IsPlaceholder(r[i]) /\ ~IsPlaceholder(r[j])
              /\ r[j]._orig_idx > r[i]._orig_idx + 1

\* The fixed slot sequence and the secondary slot ranking of the ordering rule.
FixedSequence == <<"QB", "RB", "RB", "WR", "WR", "TE", "FLEX", "D/ST", "K">>

SecondaryRank(slot) ==
    IF slot \in {"QB", "RB", "WR", "TE", "FLEX", "K"}
    THEN [QB |-> 0, RB |-> 1, WR |-> 2, TE |-> 3, FLEX |-> 4, K |-> 6][slot]
    ELSE IF slot = "D/ST" THEN 5 ELSE 99

\* How many positions up to p of the fixed sequence name the slot of p.
Occurrence(p) == Cardinality({q \in 1..p : FixedSequence[q] = FixedSequence[p]})

\* C19: the output rows of a built lineup are (1) for each position of QB, RB,
\* RB, WR, WR, TE, FLEX, D/ST, K in turn the lowest-index starter of that slot
\* not yet emitted, if there is one; (2) the remaining starters sorted by
\* (slot rank, index), slots outside the ranking last; (3) the bench-typed
\* rows in ascending index.  Every starter precedes every bench row, and a
\* lineup with exactly the required counts comes out in the fixed sequence.
C19_OutputOrder ==
    Exported =>
        \A k \in 1..Len(built) :
            LET r == built[k].ordered
                nst == Len(StarterRows(r))
                have(slot) == CountIf(StarterRows(r), LAMBDA x : x.slot = slot)
                taken == SelectSeq(<<1, 2, 3, 4, 5, 6, 7, 8, 9>>,
                                   LAMBDA p : Occurrence(p) <= have(FixedSequence[p]))
                a == Len(taken)
                \* starters of the slot of row i that sort before row i
                lower(i) == {j \in 1..nst :
                                /\ r[j].slot = r[i].slot
                                /\ \/ r[j]._orig_idx < r[i]._orig_idx
                                   \/ r[j]._orig_idx = r[i]._orig_idx /\ j < i}
            IN  /\ \A i \in 1..Len(r) : (i <= nst) <=> (r[i].slot_type = "starters")
                /\ \A i \in 1..a :
                      /\ r[i].slot = FixedSequence[taken[i]]
                      /\ Cardinality(lower(i)) = Occurrence(taken[i]) - 1
                /\ \A i, j \in (a + 1)..nst :
                      i < j =>
                          \/ SecondaryRank(r[i].slot) < SecondaryRank(r[j].slot)
                          \/ /\ SecondaryRank(r[i].slot) = SecondaryRank(r[j].slot)
                             /\ r[i]._orig_idx <= r[j]._orig_idx
                /\ \A i, j \in (nst + 1)..Len(r) : i < j => r[i]._orig_idx < r[j]._orig_idx
                /\ ( /\ have("QB") = 1 /\ have("RB") = 2 /\ have("WR") = 2
                     /\ have("TE") = 1 /\ have("FLEX") = 1 /\ have("D/ST") = 1
                     /\ have("K") = 1 /\ nst = 9 )
                      => \A i \in 1..9 : r[i].slot = FixedSequence[i]

\* A lineup with a third RB, emitted after the K row, and a bench row at the
\* end.
C19_Witness ==
    /\ Exported
    /\ \E i, j, b \in 1..Len(built[1].ordered) :
          LET r == built[1].ordered
          IN  /\ i < j /\ j < b
              /\ r[i].slot = "K" /\ r[j].slot = "RB" /\ r[b].slot_type = "bench"
              /\ CountIf(r, LAMBDA x : x.slot = "RB") = 3

\* C20: a row is a placeholder exactly when its issue_flag is
\* MISSING_SLOT:<its slot>; a real row is flagged INVALID_FLEX_POSITION:<POS>,
\* POS being its upper-cased position or UNKNOWN when the position is absent
\* or empty, exactly when its slot is FLEX and its upper-cased position is not
\* RB, WR or TE; every other row has an empty issue_flag; a FLEX placeholder
\* has position WR and is never flagged INVALID_FLEX_POSITION.
C20_IssueFlags ==
    Exported =>
        \A k \in 1..Len(built) :
            \A i \in 1..Len(built[k].ordered) :
                LET row == built[k].ordered[i]
                    POS == IF row.position \in {None, ""} THEN "" ELSE upper(row.position)
                IN  /\ IsPlaceholder(row) <=> (row.issue_flag = "MISSING_SLOT:" \o row.slot)
                    /\ ~IsPlaceholder(row) =>
                          row.issue_flag =
                             (IF row.slot = "FLEX" /\ POS \notin {"RB", "WR", "TE"}
                              THEN "INVALID_FLEX_POSITION:"
                                      \o (IF POS = "" THEN "UNKNOWN" ELSE POS)
                              ELSE "")
                    /\ (IsPlaceholder(row) /\ row.slot = "FLEX") => row.position = "WR"

\* A filled lineup with a placeholder, a real FLEX row flagged for its QB
\* position, a real FLEX row without a position, and an unflagged real row.
C20_Witness ==
    /\ Exported /\ fill_missing_slots
    /\ \E i, j, m, n \in 1..Len(built[1].ordered) :
          LET r == built[1].ordered
          IN  /\ IsPlaceholder(r[i])
              /\ r[j].issue_flag = "INVALID_FLEX_POSITION:QB"
              /\ r[m].issue_flag = "INVALID_FLEX_POSITION:UNKNOWN"
              /\ ~IsPlaceholder(r[n]) /\ r[n].issue_flag = ""

-----------------------------------------------------------------------------
(* Properties of the export as a whole, under Spec *)

\* The export has run and nothing has run after it.
JustExported == pc = "exported"

\* Every team-week of the frame the export built has exactly 9 starter rows.
NineStartersEach(frame) ==
    \A key \in GroupKeys(StarterRows(frame)) : Len(Group(StarterRows(frame), key)) = 9

RequiredKinds == {"QB", "RB", "WR", "TE", "FLEX", "D/ST", "K"}

RequiredOf(slot) == IF slot \in {"RB", "WR"} THEN 2 ELSE 1

Max(a, b) == IF a > b THEN a ELSE b

\* The raw entries of team-week k whose normalised slot is slot.
RealIn(k, slot) ==
    CountIf(league[k].lineup, LAMBDA e : _norm_slot(e.slot_position, e.position) = slot)

\* C23: with fill_missing_slots, each required slot gets exactly
\* max(0, required - real) placeholders, so that it holds max(required, real)
\* starters after filling; a surplus is never removed, no placeholder is
\* made for a slot outside the seven required kinds, and the built lineup
\* has at least 9 starters, exactly 9 when no required slot is over-filled
\* and no starter sits in a slot that is not required.  Without
\* fill_missing_slots no placeholder is made.
C23_FillArithmetic ==
    Exported =>
        \A k \in 1..Len(built) :
            LET r == built[k].ordered
                st == StarterRows(r)
                ph(slot) == CountIf(r, LAMBDA x : IsPlaceholder(x) /\ x.slot = slot)
                real(slot) == CountIf(r, LAMBDA x : ~IsPlaceholder(x) /\ x.slot = slot)
                held(slot) == CountIf(st, LAMBDA x : x.slot = slot)
            IN  /\ \A slot \in RequiredKinds : real(slot) = RealIn(k, slot)
                /\ CountIf(r, LAMBDA x : ~IsPlaceholder(x)) = Len(league[k].lineup)
                /\ \A i \in 1..Len(r) :
                      IsPlaceholder(r[i]) =>
                          r[i].slot \in RequiredKinds /\ r[i].slot_type = "starters"
                /\ fill_missing_slots =>
                      /\ \A slot \in RequiredKinds :
                            /\ ph(slot) = Max(0, RequiredOf(slot) - RealIn(k, slot))
                            /\ held(slot) = Max(RequiredOf(slot), RealIn(k, slot))
                      /\ Len(st) >= 9
                      /\ ( /\ \A slot \in RequiredKinds : RealIn(k, slot) <= RequiredOf(slot)
                           /\ \A i \in 1..Len(st) : st[i].slot \in RequiredKinds )
                            => Len(st) = 9
                /\ ~fill_missing_slots => \A i \in 1..Len(r) : ~IsPlaceholder(r[i])

\* A filled lineup with a surplus K (2 for 1), a short RB slot that got its
\* one placeholder, and more than 9 starters.
C23_Witness ==
    /\ Exported /\ fill_missing_slots
    /\ LET r == built[1].ordered
           ph(slot) == CountIf(r, LAMBDA x : IsPlaceholder(x) /\ x.slot = slot)
       IN  /\ RealIn(1, "K") = 2 /\ ph("K") = 0
           /\ RealIn(1, "RB") = 1 /\ ph("RB") = 1
           /\ RealIn(1, "FLEX") = 1 /\ ph("FLEX") = 0
           /\ Len(StarterRows(r)) > 9

\* |sum of a column over the rows of g - the total g stores|, rounded to 2
\* decimals, in thousandths (no model value is halfway).
StoredGap(g, column, total) ==
    LET d == FSum(Column(g, column)).milli - g[1][total].milli
        cents == ((d + 5) \div 10) * 10
    IN  IF cents < 0 THEN -cents ELSE cents

\* Some team-week of the frame has a sum off by more than the tolerance, or a
\* starter count other than 9.
SomeGroupDirty(frame, tolerance) ==
    \E key \in GroupKeys(StarterRows(frame)) :
        LET g == Group(StarterRows(frame), key)
        IN  \/ StoredGap(g, "rs_projected_pf", "team_projected_total") > tolerance.milli
            \/ StoredGap(g, "rs_actual_pf", "team_actual_total") > tolerance.milli
            \/ Len(g) # 9

\* C24: an export run with require_clean over a table in which some group has
\* a projected or actual difference above the tolerance, or a starter count
\* other than 9, raises before the CSV is written, so no file is created;
\* when every group is clean, or require_clean is off, the file is written.
C24_CleanGate ==
    JustExported =>
        /\ (require_clean /\ SomeGroupDirty(df, export_tolerance))
              => (error # "" /\ ~out_csv.written)
        /\ (~require_clean \/ ~SomeGroupDirty(df, export_tolerance))
              => (error = "" /\ out_csv.written)

\* The rows of the frame that belong to team-week k of the box score.
FrameRows(k) ==
    SelectSeq(df, LAMBDA r : /\ r.week = league[k].week /\ r.matchup = league[k].matchup
                             /\ r.team_code = league[k].team_code)

\* C26: the builder neither loses nor duplicates rows: the rows of a
\* team-week are its raw entries, each exactly once, plus the placeholders
\* created for it, in the built lineup and in the table alike.  Without
\* fill_missing_slots a team-week with zero entries has no row, both totals
\* 0, and the build raises nothing.
C26_RowsConserved ==
    Exported =>
        \A k \in 1..Len(built) :
            LET r == built[k].ordered
                entries == league[k].lineup
                real == SelectSeq(r, LAMBDA x : ~IsPlaceholder(x))
                made == SelectSeq(r, LAMBDA x : IsPlaceholder(x))
            IN  /\ Len(real) = Len(entries)
                /\ \A n \in 1..Len(entries) :
                      Cardinality({i \in 1..Len(real) : real[i]._orig_idx = n - 1}) = 1
                /\ \A i \in 1..Len(real) :
                      /\ real[i].player_name = RawEntry(k, real[i]).name
                      /\ real[i].position = RawEntry(k, real[i]).position
                      /\ real[i].nfl_team = RawEntry(k, real[i]).proTeam
                /\ Len(r) = Len(entries) + Len(made)
                /\ Len(FrameRows(k)) = Len(r)
                /\ \A i \in 1..Len(r) :
                      /\ FrameRows(k)[i].player_name = r[i].player_name
                      /\ FrameRows(k)[i].slot = r[i].slot
                /\ (entries = <<>> /\ ~fill_missing_slots) =>
                      /\ r = <<>> /\ FrameRows(k) = <<>>
                      /\ built[k].team_proj = Num(0) /\ built[k].team_act = Num(0)
                      /\ (JustExported /\ ~require_clean) => error = ""

\* A filled lineup of 11 entries, two of them surplus starters and one on the
\* bench, with its one placeholder: 12 rows.
C26_Witness ==
    /\ Exported /\ fill_missing_slots
    /\ Len(league[1].lineup) = 11
    /\ Len(built[1].ordered) = 12
    /\ RealIn(1, "K") = 2 /\ RealIn(1, "WR") = 3 /\ RealIn(1, "RB") = 1
    /\ \E i \in 1..12 : built[1].ordered[i].slot_type = "bench"

\* A team-week with zero entries has been built without fill_missing_slots:
\* no row, no error.
C26_WitnessEmpty ==
    /\ JustExported /\ ~fill_missing_slots /\ ~require_clean
    /\ league[1].lineup = <<>> /\ built[1].ordered = <<>> /\ error = ""

\* The build of team-week k with fill_missing_slots, and the one without:
\* the one the export made, and the other made from the same raw entries.
Filled(k) ==
    IF fill_missing_slots THEN built[k] ELSE BuildLineup(league[k].lineup, TRUE)

Unfilled(k) ==
    IF fill_missing_slots THEN BuildLineup(league[k].lineup, FALSE) ELSE built[k]

\* C27: filling is conservative: built with and without fill_missing_slots,
\* the same raw entries give the same two team totals, and the rows built
\* with it, the placeholders deleted, are exactly the rows built without it,
\* in the same order.
C27_FillConservative ==
    Exported =>
        \A k \in 1..Len(built) :
            /\ Filled(k).team_proj = Unfilled(k).team_proj
            /\ Filled(k).team_act = Unfilled(k).team_act
            /\ SelectSeq(Filled(k).ordered, LAMBDA x : ~IsPlaceholder(x)) = Unfilled(k).ordered

\* A filled lineup with totals other than 0 in which a placeholder stands
\* before a real starter and a surplus starter after it.
C27_Witness ==
    /\ Exported /\ fill_missing_slots
    /\ built[1].team_proj.milli # 0
    /\ LET r == built[1].ordered
       IN  \E i, j, m \in 1..Len(r) :
              /\ i < j /\ j < m
              /\ ~IsPlaceholder(r[i]) /\ IsPlaceholder(r[j])
              /\ ~IsPlaceholder(r[m]) /\ r[m].slot_type = "starters"
              /\ m > 9

\* The team-weeks the reconciliation of the written table flags as a bad
\* count.
BadCountKeys ==
    LET bad == BadCount(Agg(StarterRows(read_csv(out_csv.table))))
    IN  {<<bad[i].week, bad[i].matchup, bad[i].team_code>> : i \in 1..Len(bad)}

\* C28: whenever the validator finds the starter rows of a team-week valid,
\* the team-week has exactly 9 starter rows, so the reconciliation of the same
\* table does not flag it as a bad count.
C28_ValidHasNineStarters ==
    Validated =>
        \A key \in DOMAIN validation :
            validation[key].is_valid =>
                /\ Len(ValidatedStarters(key)) = 9
                /\ key \notin BadCountKeys

\* A text value as the validator reads it back from the written table.
ReadBack(x) == ReadField(CsvField(x))

\* The normaliser took the slot of entry e from its position label: the slot
\* label alone gives another slot.
PlacedByPosition(e) ==
    _norm_slot(e.slot_position, None) # _norm_slot(e.slot_position, e.position)

\* The issues of one type that the validator reports for the row.
IssuesAbout(key, type, row) ==
    SelectSeq(IssuesOfType(key, type),
              LAMBDA x : /\ x.player = ReadBack(row.player_name)
                         /\ x.position = ReadBack(row.position))

\* C29: builder and validator agree on position labels.  A real entry that
\* the normaliser placed in slot QB, K or D/ST because of its position label
\* (position "DST", or lower-case "qb", with no slot label) gets no
\* invalid_position_in_slot issue; and for a real FLEX row the builder sets
\* INVALID_FLEX_POSITION exactly when the validator reports flex_ineligible
\* for that row.
C29_LabelsAgree ==
    Validated =>
        \A k \in 1..Len(built) :
            LET key == <<league[k].week, league[k].matchup, league[k].team_code>>
                r == SelectSeq(StarterRows(built[k].ordered), LAMBDA x : ~IsPlaceholder(x))
            IN  key \in DOMAIN validation =>
                    \A i \in 1..Len(r) :
                        /\ (r[i].slot \in {"QB", "K", "D/ST"} /\ PlacedByPosition(RawEntry(k, r[i])))
                              => IssuesAbout(key, "invalid_position_in_slot", r[i]) = <<>>
                        /\ r[i].slot = "FLEX"
                              => (r[i].issue_flag # ""
                                    <=> IssuesAbout(key, "flex_ineligible", r[i]) # <<>>)

-----------------------------------------------------------------------------
(* Properties of _f, under SpecCoerce *)

\* The number a numeric string of the model spells, in thousandths.
Spelled(str) ==
    CASE str = "3.2" -> 3200
      [] str = "-0.5" -> -500
      [] str = " 7 " -> 7000

NumericStrings == {"3.2", "-0.5", " 7 "}

\* A string that spells NaN.
SpellsNaN(x) == x.kind = "str" /\ x.s \in {"nan", "NaN"}

\* C22: point coercion never raises and never yields NaN.  An absent value,
\* a float NaN, and a value that does not convert to a number, a string that
\* spells NaN included, become the default (0.0 unless the caller passes
\* another); a number or a numeric string becomes that number.  So every
\* per-row point value and every team total of a built lineup is a number.
C22_CoercionNeverNaN ==
    /\ coercion.called =>
          LET x == coercion.x
              v == coercion.value
          IN  /\ ~v.nan
              /\ x.kind = "None" => v = coercion.default
              /\ (x.kind = "float" /\ x.f.nan) => v = coercion.default
              /\ (x.kind = "str" /\ x.s \notin NumericStrings) => v = coercion.default
              /\ SpellsNaN(x) => v = coercion.default
              /\ (x.kind = "float" /\ ~x.f.nan) => v = x.f
              /\ x.kind = "int" => v = Num(x.n * 1000)
              /\ (x.kind = "str" /\ x.s \in NumericStrings) => v = Num(Spelled(x.s))
    /\ JustExported =>
          \A k \in 1..Len(built) :
              /\ ~built[k].team_proj.nan /\ ~built[k].team_act.nan
              /\ \A i \in 1..Len(built[k].ordered) :
                    /\ ~built[k].ordered[i].rs_projected_pf.nan
                    /\ ~built[k].ordered[i].rs_actual_pf.nan

-----------------------------------------------------------------------------
(* Properties of the reconciliation, under SpecRecon *)

Reconciled == pc = "reconciled" /\ error = ""

\* The starter rows of the file cmd_validate read.
FileStarters == StarterRows(read_csv(recon.csv))

\* The starter rows of the group an agg row stands for.
GroupRows(a) ==
    SelectSeq(FileStarters, LAMBDA r : /\ r.week = a.week /\ r.matchup = a.matchup
                                       /\ r.team_code = a.team_code)

\* The group of agg row a is among the rows of bad.
Flagged(bad, a) ==
    \E i \in 1..Len(bad) : /\ bad[i].week = a.week /\ bad[i].matchup = a.matchup
                           /\ bad[i].team_code = a.team_code

\* Thousandths rounded to the nearest hundredth (no model value is halfway).
NearestCent(m) == ((m + 5) \div 10) * 10

Magnitude(m) == IF m < 0 THEN -m ELSE m

\* |sum of the group's column - the group's stored total|, rounded, in
\* thousandths.
RoundedGap(a, column, total) ==
    LET g == GroupRows(a)
    IN  Magnitude(NearestCent(FSum(Column(g, column)).milli - g[1][total].milli))

\* C13: a group is flagged a bad projection exactly when |sum of its starter
\* rows' projected points - its stored projected total|, rounded to 2
\* decimals, is strictly greater than the tolerance, and likewise for
\* actuals; the tolerance is 0.0 when the option is left out.  A gap of 0.01
\* is flagged at tolerance 0.0 and not at 0.02, and a gap equal to the
\* tolerance is not flagged.
C13_ToleranceBoundary ==
    Reconciled =>
        /\ ~recon.given => recon.tolerance = Num(0)
        /\ \A i \in 1..Len(recon.agg) :
              LET a == recon.agg[i]
                  gp == RoundedGap(a, "rs_projected_pf", "team_projected_total")
                  ga == RoundedGap(a, "rs_actual_pf", "team_actual_total")
                  tol == recon.tolerance.milli
              IN  /\ Flagged(recon.bad_proj, a) <=> gp > tol
                  /\ Flagged(recon.bad_act, a) <=> ga > tol
                  /\ (gp = 10 /\ tol = 0) => Flagged(recon.bad_proj, a)
                  /\ (gp = 10 /\ tol = 20) => ~Flagged(recon.bad_proj, a)
                  /\ gp = tol => ~Flagged(recon.bad_proj, a)
                  /\ ga = tol => ~Flagged(recon.bad_act, a)

\* At tolerance 0.02, a group whose projected gap is exactly 0.02 is not
\* flagged while its actual gap of 0.03 is.
C13_Witness ==
    /\ Reconciled /\ recon.given /\ recon.tolerance = Num(20)
    /\ \E i \in 1..Len(recon.agg) :
          LET a == recon.agg[i]
          IN  /\ RoundedGap(a, "rs_projected_pf", "team_projected_total") = 20
              /\ RoundedGap(a, "rs_actual_pf", "team_actual_total") = 30
              /\ ~Flagged(recon.bad_proj, a)
              /\ Flagged(recon.bad_act, a)

\* C14: a group is flagged a bad count exactly when the number of its
\* starter-typed rows differs from 9, whatever the tolerance and whether or
\* not its sums match.
C14_BadCount ==
    Reconciled =>
        /\ \A i \in 1..Len(recon.agg) :
              Flagged(recon.bad_cnt, recon.agg[i]) <=> Len(GroupRows(recon.agg[i])) # 9
        /\ \A i \in 1..Len(recon.bad_cnt) :
              \E j \in 1..Len(recon.agg) : recon.agg[j] = recon.bad_cnt[i]

\* At tolerance 0.02: a group of 10 starters whose sums match is flagged for
\* its count only, next to a group of 9 starters flagged for its projection
\* only.
C14_Witness ==
    /\ Reconciled /\ recon.tolerance = Num(20)
    /\ \E i, j \in 1..Len(recon.agg) :
          LET a == recon.agg[i]
              b == recon.agg[j]
          IN  /\ Len(GroupRows(a)) = 10
              /\ RoundedGap(a, "rs_projected_pf", "team_projected_total") = 0
              /\ RoundedGap(a, "rs_actual_pf", "team_actual_total") = 0
              /\ Flagged(recon.bad_cnt, a) /\ ~Flagged(recon.bad_proj, a)
              /\ Len(GroupRows(b)) = 9
              /\ Flagged(recon.bad_proj, b) /\ ~Flagged(recon.bad_cnt, b)

\* A team-week of the box score has no starter row in the file read.
NoStarterRows(k) ==
    \A i \in 1..Len(FileStarters) :
        ~( /\ FileStarters[i].week = league[k].week
           /\ FileStarters[i].matchup = league[k].matchup
           /\ FileStarters[i].team_code = league[k].team_code )

\* C15: when a team-week checked by the reconciliation has no starter row in
\* the persisted table, the command fails instead of leaving the team-week
\* out or reporting the table clean.
C15_ZeroEntryFailsFast ==
    (pc = "reconciled" /\ \E k \in 1..Len(league) : NoStarterRows(k)) => error # ""

\* The checks a group fails.
FailedChecks(a) ==
    (IF Flagged(recon.bad_proj, a) THEN {"proj_mismatch"} ELSE {})
       \cup (IF Flagged(recon.bad_act, a) THEN {"actual_mismatch"} ELSE {})
       \cup (IF Flagged(recon.bad_cnt, a) THEN {"starter_count"} ELSE {})

\* The rows of the detail report for the group of agg row a.
ReportRowsOf(a) ==
    SelectSeq(recon_report.rows, LAMBDA r : /\ r.week = a.week /\ r.matchup = a.matchup
                                            /\ r.team_code = a.team_code)

FileTeamWeeks ==
    {<<FileStarters[i].season_year, FileStarters[i].week, FileStarters[i].matchup,
       FileStarters[i].team_code>> : i \in 1..Len(FileStarters)}

\* C17: the reconciliation derives exactly one row per team-week (season,
\* week, matchup, team), and never sums or counts the starter rows of two
\* team-weeks together.
C17_OneRowPerTeamWeek ==
    Reconciled =>
        /\ Len(recon.agg) = Cardinality(FileTeamWeeks)
        /\ \A i \in 1..Len(recon.agg) :
              LET g == GroupRows(recon.agg[i])
              IN  /\ \A m, n \in 1..Len(g) : g[m].season_year = g[n].season_year
                  /\ recon.agg[i].starter_count = Len(g)

\* The rows of the file read that belong to team-week k of the box score.
PersistedRows(k) ==
    SelectSeq(read_csv(recon.csv), LAMBDA r : /\ r.season_year = league[k].year
                                              /\ r.week = league[k].week
                                              /\ r.matchup = league[k].matchup
                                              /\ r.team_code = league[k].team_code)

\* cmd_validate read the file as the export wrote it, at tolerance 0.0.
ReconciledAsWritten ==
    Reconciled /\ recon.csv = out_csv.table /\ recon.tolerance = Num(0)

\* C25: for every team-week the builder produced, every persisted row of it,
\* starter or bench, real or placeholder, carries the same two stored totals,
\* those the builder computed, and the reconciliation at tolerance 0.0
\* computes proj_diff = 0 and act_diff = 0 for it: it is never reported as a
\* projection or an actual mismatch.
C25_BuilderReconciles ==
    ReconciledAsWritten =>
        /\ \A k \in 1..Len(league) :
              \A i \in 1..Len(PersistedRows(k)) :
                  /\ PersistedRows(k)[i].team_projected_total = built[k].team_proj
                  /\ PersistedRows(k)[i].team_actual_total = built[k].team_act
        /\ \A i \in 1..Len(recon.agg) :
              /\ recon.agg[i].proj_diff = Num(0)
              /\ recon.agg[i].act_diff = Num(0)
              /\ ~Flagged(recon.bad_proj, recon.agg[i])
              /\ ~Flagged(recon.bad_act, recon.agg[i])
        /\ recon.bad_proj = <<>> /\ recon.bad_act = <<>>

\* A team-week with bench rows, negative and 3-decimal points and totals
\* other than 0 has been reconciled next to another team-week.
C25_Witness ==
    /\ ReconciledAsWritten
    /\ Len(recon.agg) = 2
    /\ \E k \in 1..Len(league) :
          /\ league[k].lineup = OddLineup
          /\ built[k].team_proj.milli # 0 /\ built[k].team_act.milli # 0
          /\ \E i \in 1..Len(PersistedRows(k)) : PersistedRows(k)[i].slot_type = "bench"
          /\ \E i \in 1..Len(PersistedRows(k)) : PersistedRows(k)[i].rs_actual_pf.milli < 0

\* What `validate` finds in a table at a tolerance: TRUE when it reads the
\* table and reports no mismatch of any of the three kinds.
ValidateFindsClean(table, tolerance) ==
    /\ table # <<>>
    /\ LET agg == Agg(StarterRows(read_csv(table)))
       IN  /\ BadDiff(agg, "proj_diff", tolerance) = <<>>
           /\ BadDiff(agg, "act_diff", tolerance) = <<>>
           /\ BadCount(agg) = <<>>

\* cmd_validate read the file as the export wrote it, at the export's
\* tolerance.
ReconciledSameTolerance ==
    Reconciled /\ recon.csv = out_csv.table /\ recon.tolerance = export_tolerance

ReconFoundClean ==
    recon.bad_proj = <<>> /\ recon.bad_act = <<>> /\ recon.bad_cnt = <<>>

\* C30: the in-memory check of an export run with require_clean and
\* `validate` on the same rows at the same tolerance reach the same verdict:
\* the export succeeds exactly when `validate` over the rows it would write
\* reports no mismatch.
C30_SameVerdict ==
    /\ (JustExported /\ require_clean) =>
          (error = "" <=> ValidateFindsClean(to_csv(df), export_tolerance))
    /\ ReconciledSameTolerance =>
          /\ require_clean => ReconFoundClean /\ ~recon_report.written
          /\ ReconFoundClean <=> ~SomeGroupDirty(df, export_tolerance)

\* An export of two team-weeks with require_clean at tolerance 0.02 has
\* succeeded, and `validate` at 0.02 has found its file clean.
C30_Witness ==
    /\ ReconciledSameTolerance /\ require_clean
    /\ export_tolerance = Num(20) /\ recon.given
    /\ Len(recon.agg) = 2 /\ ReconFoundClean

\* An export with require_clean has stopped on a table in which `validate`
\* would report a mismatch.
C30_WitnessDirty ==
    /\ JustExported /\ require_clean /\ error = "RuntimeError"
    /\ ~ValidateFindsClean(to_csv(df), export_tolerance)

====
